---- MODULE Spec2Model ----
(***************************************************************************)
(* Model of the OCR error-analysis engine of ai-docs-intelligence          *)
(* (src/src/ocr/error_analysis.py): the similarity scorer, the field       *)
(* extractor, the per-document analyzer and the corpus report aggregator.  *)
(*                                                                         *)
(* Python strings are sequences of one-character strings.  Floats that     *)
(* come out of a division are kept as exact fractions [num, den]; the      *)
(* comparisons the code makes on them are made by cross-multiplication.    *)
(***************************************************************************)
EXTENDS Integers, Sequences, FiniteSets, TLC

VARIABLES
    labels,      \* label store: doc id -> state of labels_dir/{doc_id}.json
    ocrFiles,    \* OCR store: <<engine, doc id>> -> state of ocr_results_dir/{engine}/{doc_id}_ocr.json
    analyzer,    \* the OCRErrorAnalyzer object the caller holds (or none yet)
    call,        \* the most recent call: operation name and arguments
    result,      \* what the most recent call returned or raised
    simArgs,     \* the two arguments handed to calculate_similarity
    extractArgs, \* the three arguments handed to _extract_field_from_ocr
    clock,       \* the reading datetime.now() gives, in units of its resolution
    organizers,  \* DatasetOrganizer objects: instance -> its self.metadata (or not constructed)
    manifest,    \* state of base_path/dataset_metadata.json
    rawFiles,    \* the doc ids that have a file in base_path/raw
    metaFiles,   \* the doc ids that have a {doc_id}_metadata.json in base_path/labels
    ocrEngine,   \* the OCREngine object: engine, paddle_ocr and pytesseract (set or None)
    scan,        \* what the OCR libraries give for the image that is read
    imageDir,    \* input directory of batch_process: file name -> state of the file
    summaryFile  \* state of output_dir/batch_summary.json

datasetVars == <<clock, organizers, manifest, rawFiles, metaFiles>>
engineVars  == <<ocrEngine, scan, imageDir, summaryFile>>

vars == <<labels, ocrFiles, analyzer, call, result, simArgs, extractArgs, datasetVars, engineVars>>

----------------------------------------------------------------------------
(* Bounds *)

MaxLen   == 3      \* longest argument of calculate_similarity that is enumerated
MaxShort == 4      \* every list of document ids up to this length is requested
MaxFew   == 2      \* the same, over stores that hold every kind of record
MaxIds   == 11     \* longest list of document ids that is requested
MaxPieces == 2     \* most pieces of text that make up a full text for the extractor
MaxTicks == 1      \* last reading of the clock
MaxAdds  == 2      \* add_document is called while statistics.total_documents is below this
MaxLines == 2      \* most lines or boxes an OCR library reports for an image

----------------------------------------------------------------------------
(* Characters and Python string methods *)

UpperChars == <<"A","B","C","D","E","F","G","H","I","J","K","L","M",
                "N","O","P","Q","R","S","T","U","V","W","X","Y","Z">>
LowerChars == <<"a","b","c","d","e","f","g","h","i","j","k","l","m",
                "n","o","p","q","r","s","t","u","v","w","x","y","z">>
DigitChars == <<"0","1","2","3","4","5","6","7","8","9">>

Range(f) == {f[i] : i \in DOMAIN f}

UpperSet == Range(UpperChars)
LowerSet == Range(LowerChars)
DigitSet == Range(DigitChars)
SpaceSet == {" ", "\n", "\t", "\r", "\f"}   \* str.strip() and \s

\* str.lower() on one character
LowerChar(c) ==
    IF c \in UpperSet
    THEN LowerChars[CHOOSE i \in DOMAIN UpperChars : UpperChars[i] = c]
    ELSE c

\* str.lower()
PyLower(s) == [i \in DOMAIN s |-> LowerChar(s[i])]

\* s[i:j] with 1-based inclusive bounds; empty when j < i
Slice(s, i, j) == IF j < i THEN <<>> ELSE SubSeq(s, i, j)

\* str.strip(): drop leading and trailing whitespace
PyStrip(s) ==
    LET nonsp == {i \in DOMAIN s : s[i] \notin SpaceSet}
    IN  IF nonsp = {} THEN <<>>
        ELSE Slice(s, CHOOSE i \in nonsp : \A j \in nonsp : i <= j,
                      CHOOSE i \in nonsp : \A j \in nonsp : i >= j)

\* Python truthiness of an optional string argument
Absent == [none |-> TRUE, s |-> <<>>]
Str(s) == [none |-> FALSE, s |-> s]
Falsy(x) == x.none \/ x.s = <<>>

----------------------------------------------------------------------------
(* Floats produced by a division *)

Frac(n, d) == [num |-> n, den |-> d]
Zero == Frac(0, 1)      \* the literal 0.0
One  == Frac(1, 1)      \* the literal 1.0
FracEq(x, y)  == x.num * y.den = y.num * x.den
FracGeq(x, y) == x.num * y.den >= y.num * x.den

----------------------------------------------------------------------------
(* difflib.SequenceMatcher(None, a, b).ratio(), for inputs below the        *)
(* 200-element size at which the library's autojunk heuristic starts.       *)

RECURSIVE RunLen(_, _, _, _, _, _)
\* length of the common block starting at a[i], b[j] inside a[..ahi], b[..bhi]
RunLen(a, b, i, j, ahi, bhi) ==
    IF i > ahi \/ j > bhi THEN 0
    ELSE IF a[i] # b[j] THEN 0
    ELSE 1 + RunLen(a, b, i + 1, j + 1, ahi, bhi)

\* the smallest number of a non-empty set
Least(S) == CHOOSE x \in S : \A y \in S : x <= y

\* among the blocks len (start pair |-> size) one of the largest size, earliest
\* in a, then earliest in b
EarliestLongest(len, top) ==
    <<Least({p[1] : p \in {q \in DOMAIN len : len[q] = top}}),
      Least({p[2] : p \in {q \in DOMAIN len : /\ len[q] = top
                                              /\ \A r \in DOMAIN len : len[r] = top => q[1] <= r[1]}}),
      top>>

LongestOf(len) == EarliestLongest(len, CHOOSE n \in Range(len) : \A p \in DOMAIN len : len[p] <= n)

\* find_longest_match: the longest block, earliest in a, then earliest in b
FindLongestMatch(a, b, alo, ahi, blo, bhi) ==
    IF alo > ahi \/ blo > bhi THEN <<alo, blo, 0>>
    ELSE LongestOf([p \in (alo..ahi) \X (blo..bhi) |-> RunLen(a, b, p[1], p[2], ahi, bhi)])

RECURSIVE MatchingCount(_, _, _, _, _, _), CountAround(_, _, _, _, _, _, _)
\* sum of the sizes of get_matching_blocks() over a[alo..ahi], b[blo..bhi]
MatchingCount(a, b, alo, ahi, blo, bhi) ==
    IF alo > ahi \/ blo > bhi THEN 0
    ELSE CountAround(a, b, alo, ahi, blo, bhi, FindLongestMatch(a, b, alo, ahi, blo, bhi))

\* the longest block m = <<i, j, size>>, then the blocks left and right of it
CountAround(a, b, alo, ahi, blo, bhi, m) ==
    IF m[3] = 0 THEN 0
    ELSE m[3]
         + MatchingCount(a, b, alo, m[1] - 1, blo, m[2] - 1)
         + MatchingCount(a, b, m[1] + m[3], ahi, m[2] + m[3], bhi)

\* ratio(): 2.0 * matches / length, and 1.0 when both sequences are empty
Ratio(a, b) ==
    IF Len(a) + Len(b) = 0 THEN One
    ELSE Frac(2 * MatchingCount(a, b, 1, Len(a), 1, Len(b)), Len(a) + Len(b))

\* calculate_similarity without the lower() of the normalisation
calculate_similarity_no_lower(str1, str2) ==
    IF Falsy(str1) \/ Falsy(str2) THEN Zero
    ELSE Ratio(PyStrip(str1.s), PyStrip(str2.s))

\* calculate_similarity whose guard tests "is None" instead of truthiness
calculate_similarity_none_only(str1, str2) ==
    IF str1.none \/ str2.none THEN Zero
    ELSE Ratio(PyStrip(PyLower(str1.s)), PyStrip(PyLower(str2.s)))

\* calculate_similarity that lowercases its first argument only
calculate_similarity_lower_first(str1, str2) ==
    IF Falsy(str1) \/ Falsy(str2) THEN Zero
    ELSE Ratio(PyStrip(PyLower(str1.s)), PyStrip(str2.s))

\* OCRErrorAnalyzer.calculate_similarity
calculate_similarity(str1, str2) ==
    IF Falsy(str1) \/ Falsy(str2) THEN Zero
    ELSE Ratio(PyStrip(PyLower(str1.s)), PyStrip(PyLower(str2.s)))

----------------------------------------------------------------------------
(* The regular expressions of _extract_field_from_ocr.  A pattern is a      *)
(* sequence of items (a character set with a repetition range, or an       *)
(* anchor) with one capturing group spanning items gfirst..glast.          *)
(* Matching is re.search: leftmost start, greedy items, backtracking.      *)

AlnumDash   == UpperSet \cup DigitSet \cup {"-"}        \* [A-Z0-9-]
VendorClass == UpperSet \cup LowerSet \cup SpaceSet \cup {"&", ",", "."}

\* max = 0 stands for "no upper limit"
Item(S, neg, lo, hi) == [kind |-> "set", set |-> S, neg |-> neg, min |-> lo, max |-> hi]
Ch(c)       == Item({c}, FALSE, 1, 1)
In(S)       == Item(S, FALSE, 1, 1)
Star(S)     == Item(S, FALSE, 0, 0)
Plus(S)     == Item(S, FALSE, 1, 0)
Opt(c)      == Item({c}, FALSE, 0, 1)
Rep(S, n)   == Item(S, FALSE, n, n)
NotPlus(S)  == Item(S, TRUE, 1, 0)
Bol         == [kind |-> "bol", set |-> {}, neg |-> FALSE, min |-> 0, max |-> 0]
Eol         == [kind |-> "eol", set |-> {}, neg |-> FALSE, min |-> 0, max |-> 0]
Lit(s)      == [i \in DOMAIN s |-> Ch(s[i])]

Pattern(items, gfirst, glast, icase, mline) ==
    [items |-> items, gfirst |-> gfirst, glast |-> glast, icase |-> icase, mline |-> mline]

\* does character c match the set item it
CharMatches(c, it, icase) ==
    LET hit == IF icase THEN \E x \in it.set : LowerChar(x) = LowerChar(c)
               ELSE c \in it.set
    IN  hit # it.neg

RECURSIVE RunOf(_, _, _, _, _)
\* number of consecutive characters from pos that match item it, at most cap
RunOf(text, pos, it, icase, cap) ==
    IF cap = 0 \/ pos > Len(text) THEN 0
    ELSE IF ~CharMatches(text[pos], it, icase) THEN 0
    ELSE 1 + RunOf(text, pos + 1, it, icase, cap - 1)

NoMatch == [ok |-> FALSE, gs |-> 0, ge |-> 0]

\* ^ matches at pos: the start of the text, or after a newline under MULTILINE
AtBol(pat, text, pos) ==
    pos = 1 \/ (pat.mline /\ pos > 1 /\ text[pos - 1] = "\n")

\* $ matches at pos: the end of the text, before a final newline, or before
\* any newline under MULTILINE
AtEol(pat, text, pos) ==
    \/ pos = Len(text) + 1
    \/ pos = Len(text) /\ text[pos] = "\n"
    \/ pat.mline /\ pos <= Len(text) /\ text[pos] = "\n"

RECURSIVE MatchHere(_, _, _, _), MatchItem(_, _, _, _, _), TryCounts(_, _, _, _, _),
          TakeOrGiveBack(_, _, _, _, _, _)
\* match items k.. of pat at position pos of text
MatchHere(pat, text, k, pos) ==
    IF k > Len(pat.items) THEN [ok |-> TRUE, gs |-> 0, ge |-> 0]
    ELSE MatchItem(pat, text, k, pos, pat.items[k])

\* item k of pat is it
MatchItem(pat, text, k, pos, it) ==
    IF it.kind = "bol"
    THEN IF AtBol(pat, text, pos) THEN MatchHere(pat, text, k + 1, pos) ELSE NoMatch
    ELSE IF it.kind = "eol"
    THEN IF AtEol(pat, text, pos) THEN MatchHere(pat, text, k + 1, pos) ELSE NoMatch
    ELSE TryCounts(pat, text, k, pos,
                   RunOf(text, pos, it, pat.icase, IF it.max = 0 THEN Len(text) ELSE it.max))

\* item k takes n characters at pos, if that is not below its minimum
TryCounts(pat, text, k, pos, n) ==
    IF n < pat.items[k].min THEN NoMatch
    ELSE TakeOrGiveBack(pat, text, k, pos, n, MatchHere(pat, text, k + 1, pos + n))

\* r is the match of the rest; on its failure item k gives one character back
TakeOrGiveBack(pat, text, k, pos, n, r) ==
    IF r.ok
    THEN [ok |-> TRUE,
          gs |-> IF k = pat.gfirst THEN pos ELSE r.gs,
          ge |-> IF k = pat.glast THEN pos + n - 1 ELSE r.ge]
    ELSE TryCounts(pat, text, k, pos, n - 1)

\* match.group(1) of the match m
GroupOf(text, m) == [found |-> TRUE, group |-> Slice(text, m.gs, m.ge)]

\* the match at the leftmost of the start positions
LeftmostMatch(pat, text, starts) ==
    IF starts = {} THEN [found |-> FALSE, group |-> <<>>]
    ELSE GroupOf(text, MatchHere(pat, text, 1, Least(starts)))

\* re.search(pattern, text, flags): the leftmost start position at which the
\* pattern matches; found, and match.group(1)
ReSearch(pat, text) ==
    LeftmostMatch(pat, text, {s \in 1..(Len(text) + 1) : MatchHere(pat, text, 1, s).ok})

WordInvoice == <<"i","n","v","o","i","c","e">>
WordNumber  == <<"n","u","m","b","e","r">>
WordDate    == <<"d","a","t","e">>
WordFrom    == <<"f","r","o","m">>
WordTotal   == <<"t","o","t","a","l">>
IsoDate     == <<Rep(DigitSet, 4), Ch("-"), Rep(DigitSet, 2), Ch("-"), Rep(DigitSet, 2)>>
SlashDate   == <<Rep(DigitSet, 2), Ch("/"), Rep(DigitSet, 2), Ch("/"), Rep(DigitSet, 4)>>
LabelGap    == <<Star(SpaceSet), Opt(":"), Star(SpaceSet)>>

\* r'invoice\s*#?\s*:?\s*([A-Z0-9-]+)', r'(INV-\d+)',
\* r'invoice\s+number\s*:?\s*([A-Z0-9-]+)'     (re.IGNORECASE)
InvoiceNumberPatterns == <<
    Pattern(Lit(WordInvoice) \o <<Star(SpaceSet), Opt("#")>> \o LabelGap
            \o <<Plus(AlnumDash)>>, 13, 13, TRUE, FALSE),
    Pattern(Lit(<<"I","N","V","-">>) \o <<Plus(DigitSet)>>, 1, 5, TRUE, FALSE),
    Pattern(Lit(WordInvoice) \o <<Plus(SpaceSet)>> \o Lit(WordNumber) \o LabelGap
            \o <<Plus(AlnumDash)>>, 18, 18, TRUE, FALSE) >>

\* r'date\s*:?\s*(\d{4}-\d{2}-\d{2})', r'(\d{4}-\d{2}-\d{2})',
\* r'date\s*:?\s*(\d{2}/\d{2}/\d{4})'          (re.IGNORECASE)
InvoiceDatePatterns == <<
    Pattern(Lit(WordDate) \o LabelGap \o IsoDate, 8, 12, TRUE, FALSE),
    Pattern(IsoDate, 1, 5, TRUE, FALSE),
    Pattern(Lit(WordDate) \o LabelGap \o SlashDate, 8, 12, TRUE, FALSE) >>

\* r'from\s*:?\s*([^\n]+)', r'^([A-Z][A-Za-z\s&,\.]+)'
\*                                             (re.IGNORECASE | re.MULTILINE)
VendorNamePatterns == <<
    Pattern(Lit(WordFrom) \o LabelGap \o <<NotPlus({"\n"})>>, 8, 8, TRUE, TRUE),
    Pattern(<<Bol, In(UpperSet), Plus(VendorClass)>>, 2, 3, TRUE, TRUE) >>

\* r'total\s*:?\s*(\d+\.?\d*)', r'(\d+\.\d{2})\s*[A-Z]{3}$'   (re.IGNORECASE)
TotalAmountPatterns == <<
    Pattern(Lit(WordTotal) \o LabelGap \o <<Plus(DigitSet), Opt("."), Star(DigitSet)>>,
            9, 11, TRUE, FALSE),
    Pattern(<<Plus(DigitSet), Ch("."), Rep(DigitSet, 2), Star(SpaceSet),
              Rep(UpperSet, 3), Eol>>, 1, 3, TRUE, FALSE) >>

\* self.key_fields
key_fields == <<"invoice_number", "invoice_date", "vendor_name", "total_amount">>
Fields == Range(key_fields)

\* the pattern list of a field
PatternsOf(field_name) ==
    CASE field_name = "invoice_number" -> InvoiceNumberPatterns
      [] field_name = "invoice_date"   -> InvoiceDatePatterns
      [] field_name = "vendor_name"    -> VendorNamePatterns
      [] field_name = "total_amount"   -> TotalAmountPatterns
      [] OTHER                         -> <<>>

----------------------------------------------------------------------------
(* Values read back from JSON and their str() form *)

RECURSIVE IntStr(_)
\* str(n) for a natural number n
IntStr(n) == IF n < 10 THEN <<DigitChars[n + 1]>>
             ELSE IntStr(n \div 10) \o <<DigitChars[(n % 10) + 1]>>

\* str(x) for the float x = cents/100: shortest digits, at least one decimal
FloatStr(cents) ==
    LET w == cents \div 100
        f == cents % 100
    IN  IntStr(w) \o <<".">> \o
        (IF f % 10 = 0 THEN IntStr(f \div 10)
         ELSE <<DigitChars[(f \div 10) + 1], DigitChars[(f % 10) + 1]>>)

\* a JSON value under a key: missing key, null, a string, a float, or a
\* value of some other type (a list)
JMissing    == [k |-> "missing", s |-> <<>>, n |-> 0]
JNull       == [k |-> "null",    s |-> <<>>, n |-> 0]
JStr(s)     == [k |-> "str",     s |-> s,    n |-> 0]
JFloat(c)   == [k |-> "float",   s |-> <<>>, n |-> c]
JInt(i)     == [k |-> "int",     s |-> <<>>, n |-> i]

\* dict.get(key) followed by str(): a missing key reads as None
PyStrNoDefault(v) ==
    CASE v.k = "missing" -> <<"N","o","n","e">>
      [] v.k = "null"    -> <<"N","o","n","e">>
      [] v.k = "str"     -> v.s
      [] v.k = "float"   -> FloatStr(v.n)
      [] v.k = "int"     -> IntStr(v.n)

\* dict.get(key, "") followed by str()
PyStr(v) ==
    CASE v.k = "missing" -> <<>>
      [] v.k = "null"    -> <<"N","o","n","e">>
      [] v.k = "str"     -> v.s
      [] v.k = "float"   -> FloatStr(v.n)
      [] v.k = "int"     -> IntStr(v.n)

----------------------------------------------------------------------------
(* OCRErrorAnalyzer._extract_field_from_ocr *)

RECURSIVE SplitOn(_, _)
\* str.split(sep) for a one-character separator
SplitOn(s, sep) ==
    LET hits == {i \in DOMAIN s : s[i] = sep}
    IN  IF hits = {} THEN <<s>>
        ELSE LET i == CHOOSE x \in hits : \A y \in hits : x <= y
             IN  <<Slice(s, 1, i - 1)>> \o SplitOn(Slice(s, i + 1, Len(s)), sep)

\* sub in s
Contains(s, sub) ==
    \E i \in 0..(Len(s) - Len(sub)) : \A j \in 1..Len(sub) : s[i + j] = sub[j]

RECURSIVE FirstMatch(_, _, _), MatchOrNext(_, _, _, _)
\* the loop "for pattern in patterns: match = re.search(...); if match: return"
FirstMatch(pats, text, k) ==
    IF k > Len(pats) THEN [found |-> FALSE, group |-> <<>>]
    ELSE MatchOrNext(pats, text, k, ReSearch(pats[k], text))

\* the pattern loop preferring a match of a later pattern
MatchOrLater(pats, text, k, m) ==
    IF FirstMatch(pats, text, k + 1).found THEN FirstMatch(pats, text, k + 1) ELSE m

\* "if match: return", otherwise the next pattern
MatchOrNext(pats, text, k, m) ==
    IF m.found THEN m ELSE FirstMatch(pats, text, k + 1)

\* the fallback comparing gt_str with the line as it is, not lowercased
FirstLineWithSameCase(lines, gt_str) ==
    IF \A i \in DOMAIN lines : ~Contains(lines[i], gt_str) THEN <<>>
    ELSE PyStrip(lines[Least({i \in DOMAIN lines : Contains(lines[i], gt_str)})])

\* the first of lines that contains gt_str, stripped; '' when none does
FirstLineWith(lines, gt_str) ==
    IF \A i \in DOMAIN lines : ~Contains(PyLower(lines[i]), gt_str) THEN <<>>
    ELSE PyStrip(lines[Least({i \in DOMAIN lines : Contains(PyLower(lines[i]), gt_str)})])

\* the fallback: first line containing the lowercased ground truth, stripped
Fallback(full_text, gt_value) ==
    FirstLineWith(SplitOn(full_text, "\n"), PyLower(PyStr(gt_value)))

\* the value returned for the match m of the pattern loop; only vendor_name
\* strips the captured group
ExtractedFrom(m, field_name, full_text, gt_value) ==
    IF m.found
    THEN IF field_name = "vendor_name" THEN PyStrip(m.group) ELSE m.group
    ELSE Fallback(full_text, gt_value)

\* ocr_result.get('full_text', '')
FullTextOf(ocr_result) ==
    IF ocr_result.full_text.k = "missing" THEN JStr(<<>>) ELSE ocr_result.full_text

\* the extraction from the value ft of full_text: [exc, value]
ExtractFromText(ft, field_name, gt_value) ==
    IF ft.k # "str"
    THEN [exc |-> IF field_name \in Fields THEN "TypeError" ELSE "AttributeError",
          value |-> <<>>]
    ELSE [exc |-> "",
          value |-> ExtractedFrom(FirstMatch(PatternsOf(field_name), ft.s, 1),
                                  field_name, ft.s, gt_value)]

\* returns [exc, value]: exc names the exception raised, "" when none
extract_field_from_ocr(ocr_result, field_name, gt_value) ==
    ExtractFromText(FullTextOf(ocr_result), field_name, gt_value)

----------------------------------------------------------------------------
(* The two stores the analyzer reads *)

Engines == {"paddle", "tesseract"}
DocIds  == {"test_doc", "doc_b"}
MetadataStems == {"test_doc_metadata"}     \* stems for which stem.endswith("_metadata")
Stems   == DocIds \cup MetadataStems       \* names of the *.json files of labels_dir

\* a parsed JSON document: a mapping (t = "dict") with the tracked keys and
\* possibly other keys, or a value of another type (t = "other": a list or a
\* string) that is empty or not
NoFields == [f \in Fields |-> JMissing]
JDict(fields, extra) == [t |-> "dict", fields |-> fields, extra |-> extra, nonempty |-> FALSE]
JOther(nonempty)     == [t |-> "other", fields |-> NoFields, extra |-> FALSE, nonempty |-> nonempty]

\* bool(x) of a parsed JSON document
Truthy(v) ==
    IF v.t = "dict" THEN v.extra \/ \E f \in Fields : v.fields[f].k # "missing"
    ELSE v.nonempty

\* state of a label file
FileAbsent   == [st |-> "absent",  val |-> JOther(FALSE)]
FileCorrupt  == [st |-> "corrupt", val |-> JOther(FALSE)]   \* not parsable as JSON
FileJson(v)  == [st |-> "json",    val |-> v]

\* one OCR result: the value stored under an engine name
OcrMissing == [t |-> "missing", nonempty |-> FALSE, extra |-> FALSE,
               full_text |-> JMissing, avg_confidence |-> JMissing, num_blocks |-> JMissing]
OcrNull    == [OcrMissing EXCEPT !.t = "null"]
OcrOther(nonempty) == [OcrMissing EXCEPT !.t = "other", !.nonempty = nonempty]
OcrDict(ft, conf, blocks, extra) ==
    [t |-> "dict", nonempty |-> FALSE, extra |-> extra,
     full_text |-> ft, avg_confidence |-> conf, num_blocks |-> blocks]

OcrTruthy(o) ==
    CASE o.t = "dict"  -> \/ o.extra
                          \/ o.full_text.k # "missing"
                          \/ o.avg_confidence.k # "missing"
                          \/ o.num_blocks.k # "missing"
      [] o.t = "other" -> o.nonempty
      [] OTHER         -> FALSE

\* state of the OCR file of a document: the engine directory it lies in, and
\* its content: a mapping from engine names to results, or something else
NoEntries == [e \in Engines |-> OcrMissing]
OcrAbsent        == [st |-> "absent",  dir |-> "paddle", top |-> "dict", entries |-> NoEntries]
OcrCorrupt(dir)  == [st |-> "corrupt", dir |-> dir, top |-> "dict", entries |-> NoEntries]
OcrNotMap(dir)   == [st |-> "json",    dir |-> dir, top |-> "other", entries |-> NoEntries]
OcrJson(dir, entries) == [st |-> "json", dir |-> dir, top |-> "dict", entries |-> entries]
Only(e, o) == [x \in Engines |-> IF x = e THEN o ELSE OcrMissing]

----------------------------------------------------------------------------
(* The records used as store contents *)

\* tests/test_ocr_engine.py, setup_test_data: the ground truth and the OCR text
FixtureLabel == JDict(
    [f \in Fields |->
        CASE f = "invoice_number" -> JStr(<<"I","N","V","-","1","2","3","4">>)
          [] f = "invoice_date"   -> JStr(<<"2","0","2","4","-","0","1","-","1","5">>)
          [] f = "vendor_name"    -> JStr(<<"T","e","s","t"," ","C","o","m","p","a","n","y"," ","I","n","c">>)
          [] f = "total_amount"   -> JFloat(10050)], TRUE)

FixtureText ==
    <<"I","N","V","O","I","C","E","\n">>
    \o <<"I","n","v","o","i","c","e"," ","#",":"," ","I","N","V","-","1","2","3","4","\n">>
    \o <<"D","a","t","e",":"," ","2","0","2","4","-","0","1","-","1","5","\n">>
    \o <<"F","R","O","M",":"," ","T","e","s","t"," ","C","o","m","p","a","n","y"," ","I","n","c","\n">>
    \o <<"T","O","T","A","L",":"," ","1","0","0",".","5","0"," ","U","S","D">>

FixtureOcr == OcrDict(JStr(FixtureText), JFloat(95), JInt(5), TRUE)

\* a second document, whose text has no title line
OtherLabel == JDict(
    [f \in Fields |->
        CASE f = "invoice_number" -> JStr(<<"A","-","7">>)
          [] f = "invoice_date"   -> JStr(<<"2","0","2","4","-","0","2","-","0","3">>)
          [] f = "vendor_name"    -> JStr(<<"B","o">>)
          [] f = "total_amount"   -> JFloat(500)], FALSE)

OtherText ==
    <<"I","n","v","o","i","c","e"," ","#",":"," ","A","-","7","\n">>
    \o <<"D","a","t","e",":"," ","2","0","2","4","-","0","2","-","0","3","\n">>
    \o <<"F","R","O","M",":"," ","B","o","\n">>
    \o <<"T","O","T","A","L",":"," ","5",".","0"," ","U","S","D">>

OtherOcr == OcrDict(JStr(OtherText), JFloat(50), JInt(4), TRUE)

\* records with data-quality problems
EmptyLabel   == JDict(NoFields, FALSE)                        \* {}
\* a record that holds the invoice number and untracked keys only
PartialLabel == JDict([NoFields EXCEPT !["invoice_number"] = JStr(<<"A","-","7">>)], TRUE)
ListLabel    == JOther(TRUE)                                  \* [1]
NullTextOcr  == OcrDict(JNull, JFloat(90), JInt(1), TRUE)     \* "full_text": null
BadConfOcr   == OcrDict(JStr(OtherText), JStr(<<"h","i">>), JInt(4), TRUE)  \* "avg_confidence": "hi"
NoTextOcr    == OcrDict(JMissing, JMissing, JMissing, TRUE)   \* only other keys
EmptyOcr     == OcrDict(JMissing, JMissing, JMissing, FALSE)  \* {}
TextOcr      == OcrOther(TRUE)                                \* a string instead of a mapping

LabelVals  == {FixtureLabel, OtherLabel, PartialLabel, EmptyLabel, ListLabel}
OcrResults == {FixtureOcr, OtherOcr, NullTextOcr, BadConfOcr, NoTextOcr, EmptyOcr, TextOcr}

\* every kind of label file, and every kind of OCR file: the analyzed engine
\* directory holds all of them, the other directory a well-formed one
LabelContents == {FileAbsent, FileCorrupt} \cup {FileJson(v) : v \in LabelVals}
OcrContents ==
    {OcrAbsent, OcrCorrupt("paddle"), OcrNotMap("paddle"), OcrJson("paddle", NoEntries)}
    \cup {OcrJson("paddle", Only("paddle", o)) : o \in OcrResults}
    \cup {OcrJson("paddle", Only("tesseract", OtherOcr)),
          OcrJson("tesseract", Only("tesseract", OtherOcr))}

\* the files of a corpus whose records are well formed: some missing, some
\* not parsable, an empty record
CorpusLabelContents ==
    {FileAbsent, FileCorrupt, FileJson(FixtureLabel), FileJson(OtherLabel), FileJson(EmptyLabel)}
CorpusOcrContents ==
    {OcrAbsent, OcrCorrupt("paddle"),
     OcrJson("paddle", Only("paddle", FixtureOcr)),
     OcrJson("paddle", Only("paddle", OtherOcr)),
     OcrJson("tesseract", Only("tesseract", OtherOcr))}

----------------------------------------------------------------------------
(* OCRErrorAnalyzer: loading, per-document analysis, report *)

\* the literal 0.85 of analyze_field_errors
Threshold == Frac(85, 100)

\* load_ground_truth: [none, val]
load_ground_truth(doc_id) ==
    LET f == labels[doc_id]
    IN  IF f.st = "absent" THEN [none |-> TRUE, val |-> f.val]
        ELSE IF f.st = "corrupt" THEN [none |-> TRUE, val |-> f.val]   \* except Exception
        ELSE [none |-> FALSE, val |-> f.val]

\* load_ocr_result falling back on the entry of another engine
load_ocr_result_any_engine(doc_id, engine) ==
    LET f == ocrFiles[doc_id]
    IN  IF f.st = "absent" \/ f.dir # engine THEN [none |-> TRUE, val |-> OcrMissing]
        ELSE IF f.st = "corrupt" THEN [none |-> TRUE, val |-> OcrMissing]
        ELSE IF f.top # "dict" THEN [none |-> TRUE, val |-> OcrMissing]
        ELSE IF \A e \in Engines : f.entries[e].t \in {"missing", "null"}
             THEN [none |-> TRUE, val |-> OcrMissing]
        ELSE IF f.entries[engine].t \in {"missing", "null"}
             THEN [none |-> FALSE,
                   val |-> f.entries[CHOOSE e \in Engines : f.entries[e].t \notin {"missing", "null"}]]
        ELSE [none |-> FALSE, val |-> f.entries[engine]]

\* load_ocr_result: [none, val]
load_ocr_result(doc_id, engine) ==
    LET f == ocrFiles[doc_id]
    IN  IF f.st = "absent" \/ f.dir # engine THEN [none |-> TRUE, val |-> OcrMissing]
        ELSE IF f.st = "corrupt" THEN [none |-> TRUE, val |-> OcrMissing]   \* except Exception
        ELSE IF f.top # "dict" THEN [none |-> TRUE, val |-> OcrMissing]     \* data.get raises, caught
        ELSE IF f.entries[engine].t \in {"missing", "null"}
             THEN [none |-> TRUE, val |-> OcrMissing]                      \* data.get(engine) is None
        ELSE [none |-> FALSE, val |-> f.entries[engine]]

\* the entry field_errors[field]
FieldEntry(gt_str, ocr_value, similarity) ==
    [ground_truth  |-> gt_str,
     ocr_extracted |-> ocr_value,
     similarity    |-> similarity,
     is_correct    |-> FracGeq(similarity, Threshold)]

\* the entry for the ground truth str(gt_value) and the extraction ocr = [exc, value]
FieldScore(gt_str, ocr) ==
    IF ocr.exc # "" THEN [exc |-> ocr.exc, error |-> <<>>]
    ELSE [exc |-> "",
          error |-> FieldEntry(gt_str, ocr.value,
                               calculate_similarity(Str(gt_str), Str(ocr.value)))]

\* one pass of the loop "for field in self.key_fields": [exc, error]
FieldErrorOf(ground_truth, ocr_result, field) ==
    IF ground_truth.t # "dict" THEN [exc |-> "AttributeError", error |-> <<>>]
    ELSE IF ocr_result.t # "dict" THEN [exc |-> "AttributeError", error |-> <<>>]
    ELSE FieldScore(PyStr(ground_truth.fields[field]),
                    extract_field_from_ocr(ocr_result, field, ground_truth.fields[field]))

\* the passes in the order of key_fields: the first exception raised, or field_errors
LoopOutcome(one) ==
    IF \E f \in Fields : one[f].exc # ""
    THEN [exc |-> one[key_fields[Least({i \in DOMAIN key_fields : one[key_fields[i]].exc # ""})]].exc,
          field_errors |-> <<>>]
    ELSE [exc |-> "", field_errors |-> [f \in Fields |-> one[f].error]]

\* the whole loop over key_fields
FieldLoop(ground_truth, ocr_result) ==
    LoopOutcome([f \in Fields |-> FieldErrorOf(ground_truth, ocr_result, f)])

\* the loop's outcome for every pair of records the stores can hold
FieldLoopTable == [g \in LabelVals, o \in OcrResults |-> FieldLoop(g, o)]

\* ocr_result.get(key, default)
GetOr(v, default) == IF v.k = "missing" THEN default ELSE v

\* the dictionary analyze_field_errors returns after the loop
AnalysisOf(doc_id, engine, ocr_result, loop) ==
    IF loop.exc # "" THEN [exc |-> loop.exc, none |-> FALSE, value |-> <<>>]
    ELSE [exc |-> "", none |-> FALSE,
          value |-> [doc_id |-> doc_id,
                     engine |-> engine,
                     field_errors |-> loop.field_errors,
                     avg_confidence |-> GetOr(ocr_result.avg_confidence, JFloat(0)),
                     num_blocks |-> GetOr(ocr_result.num_blocks, JInt(0))]]

\* analyze_field_errors on the loaded records ([none, val] each)
AnalyzeLoaded(doc_id, engine, ground_truth, ocr_result) ==
    IF \/ ground_truth.none \/ ~Truthy(ground_truth.val)
       \/ ocr_result.none \/ ~OcrTruthy(ocr_result.val)
    THEN [exc |-> "", none |-> TRUE, value |-> <<>>]
    ELSE AnalysisOf(doc_id, engine, ocr_result.val,
                    FieldLoopTable[ground_truth.val, ocr_result.val])

\* analyze_field_errors: [exc, none, value]
analyze_field_errors(doc_id, engine) ==
    AnalyzeLoaded(doc_id, engine, load_ground_truth(doc_id), load_ocr_result(doc_id, engine))

\* the counting loop leaving out the fields whose extraction is empty
CountFieldsExtracted(prev, fe) ==
    [f \in Fields |->
        IF f \in DOMAIN fe /\ fe[f].ocr_extracted # <<>>
        THEN [total   |-> prev[f].total + 1,
              correct |-> prev[f].correct + (IF fe[f].is_correct THEN 1 ELSE 0)]
        ELSE prev[f]]

\* field_stats after one more document whose field_errors is fe
CountFields(prev, fe) ==
    [f \in Fields |->
        IF f \in DOMAIN fe
        THEN [total   |-> prev[f].total + 1,
              correct |-> prev[f].correct + (IF fe[f].is_correct THEN 1 ELSE 0)]
        ELSE prev[f]]

RECURSIVE FieldStats(_, _)
\* field_stats after the first k elements of all_errors
FieldStats(all_errors, k) ==
    IF k = 0 THEN [f \in Fields |-> [correct |-> 0, total |-> 0]]
    ELSE CountFields(FieldStats(all_errors, k - 1), all_errors[k].field_errors)

RECURSIVE SumOver(_, _)
\* sum(f[x] for x in S)
SumOver(f, S) ==
    IF S = {} THEN 0
    ELSE LET x == CHOOSE y \in S : TRUE IN f[x] + SumOver(f, S \ {x})

\* correct / total if total > 0 else 0.0
RatioOrZero(correct, total) == IF total > 0 THEN Frac(correct, total) ELSE Zero

\* the accuracy dictionary computed from field_stats, the overall entry
\* dividing by divisor
AccuracyOf(field_stats, divisor) ==
    [f \in Fields \cup {"overall"} |->
        IF f = "overall"
        THEN RatioOrZero(SumOver([g \in Fields |-> field_stats[g].correct], Fields), divisor)
        ELSE RatioOrZero(field_stats[f].correct, field_stats[f].total)]

\* the accuracy dictionary with the overall entry divided by the number of fields
AccuracyFromFieldCount(field_stats) ==
    AccuracyOf(field_stats, Cardinality(Fields))

\* the accuracy dictionary computed from field_stats
AccuracyFrom(field_stats) ==
    AccuracyOf(field_stats, SumOver([g \in Fields |-> field_stats[g].total], Fields))

\* _calculate_field_accuracy dividing the overall count by the number of documents
calculate_field_accuracy_per_doc(all_errors) ==
    AccuracyOf(FieldStats(all_errors, Len(all_errors)), Len(all_errors))

\* _calculate_field_accuracy
calculate_field_accuracy(all_errors) ==
    AccuracyFrom(FieldStats(all_errors, Len(all_errors)))

\* a JSON number in hundredths; only numbers can be summed
IsNumber(v)   == v.k \in {"float", "int"}
Hundredths(v) == IF v.k = "int" THEN 100 * v.n ELSE v.n

RECURSIVE SumHundredths(_, _)
SumHundredths(vals, k) ==
    IF k = 0 THEN 0 ELSE Hundredths(vals[k]) + SumHundredths(vals, k - 1)

\* sum(e[key] for e in all_errors) / len(all_errors) if all_errors else 0.0
MeanOf(vals) ==
    IF Len(vals) = 0 THEN Zero
    ELSE Frac(SumHundredths(vals, Len(vals)), 100 * Len(vals))

\* all_errors[-n:]
Suffix(seq, n) == IF Len(seq) <= n THEN seq ELSE SubSeq(seq, Len(seq) - n + 1, Len(seq))

\* all_errors[:n]
Prefix(seq, n) == IF Len(seq) <= n THEN seq ELSE SubSeq(seq, 1, n)

\* the number of analyses kept in detailed_errors
DetailLimit == 10

\* the loop keeping only the analysis of the latest analyzed document
AppendErrorsKeepLast(prev, errors) ==
    IF prev.exc # "" THEN prev
    ELSE IF errors.exc # "" THEN [exc |-> errors.exc, all_errors |-> <<>>]
    ELSE IF errors.none THEN prev
    ELSE [exc |-> "", all_errors |-> <<errors.value>>]

\* "errors = self.analyze_field_errors(...); if errors: all_errors.append(errors)"
\* after the earlier passes gave prev
AppendErrors(prev, errors) ==
    IF prev.exc # "" THEN prev
    ELSE IF errors.exc # "" THEN [exc |-> errors.exc, all_errors |-> <<>>]
    ELSE IF errors.none THEN prev
    ELSE [exc |-> "", all_errors |-> Append(prev.all_errors, errors.value)]

RECURSIVE AnalyzeAll(_, _, _)
\* the loop over doc_ids: [exc, all_errors] after the first k ids
AnalyzeAll(doc_ids, engine, k) ==
    IF k = 0 THEN [exc |-> "", all_errors |-> <<>>]
    ELSE AppendErrors(AnalyzeAll(doc_ids, engine, k - 1),
                      analyze_field_errors(doc_ids[k], engine))

\* every stem of the listing, a "_metadata" file included
DiscoveredAll(listing) ==
    SelectSeq(listing, LAMBDA stem : stem \in Stems)

\* the ids the glob of labels_dir yields, in the order listing gives them
Discovered(listing) ==
    SelectSeq(listing, LAMBDA stem : stem \notin MetadataStems)

\* the report dictionary with every document of the request counted as analyzed
MakeReportCountingAll(engine, doc_ids, all_errors) ==
    [kind |-> "report",
     engine |-> engine,
     total_documents |-> Len(doc_ids),
     analyzed_documents |-> Len(doc_ids),
     field_accuracy |-> calculate_field_accuracy(all_errors),
     detailed_errors |-> Prefix(all_errors, DetailLimit),
     summary |-> [avg_confidence |-> MeanOf([i \in DOMAIN all_errors |-> all_errors[i].avg_confidence]),
                  avg_blocks_per_doc |-> MeanOf([i \in DOMAIN all_errors |-> all_errors[i].num_blocks])]]

\* the report dictionary built from doc_ids and all_errors
MakeReport(engine, doc_ids, all_errors) ==
    [kind |-> "report",
     engine |-> engine,
     total_documents |-> Len(doc_ids),
     analyzed_documents |-> Len(all_errors),
     field_accuracy |-> calculate_field_accuracy(all_errors),
     detailed_errors |-> Prefix(all_errors, DetailLimit),
     summary |-> [avg_confidence |-> MeanOf([i \in DOMAIN all_errors |-> all_errors[i].avg_confidence]),
                  avg_blocks_per_doc |-> MeanOf([i \in DOMAIN all_errors |-> all_errors[i].num_blocks])]]

\* what generate_error_report does with the outcome run = [exc, all_errors]
\* of the loop: the exception that escapes, or the report
ReportAfter(engine, doc_ids, run) ==
    IF run.exc # "" THEN [kind |-> "raise", exc |-> run.exc]
    ELSE IF \E i \in DOMAIN run.all_errors :
               \/ ~IsNumber(run.all_errors[i].avg_confidence)
               \/ ~IsNumber(run.all_errors[i].num_blocks)
    THEN [kind |-> "raise", exc |-> "TypeError"]      \* sum() of a non-number
    ELSE MakeReport(engine, doc_ids, run.all_errors)

\* generate_error_report from the loop over doc_ids on
ReportFor(engine, doc_ids) ==
    ReportAfter(engine, doc_ids, AnalyzeAll(doc_ids, engine, Len(doc_ids)))

----------------------------------------------------------------------------
(* Inputs *)

SeqsUpTo(S, n) == UNION {[1..k -> S] : k \in 0..n}

\* the list of length n that repeats base
Cycle(base, n) == [i \in 1..n |-> base[((i - 1) % Len(base)) + 1]]

\* the doc_ids argument: None, or a list
NoList       == [none |-> TRUE,  ids |-> <<>>]
IdList(ids)  == [none |-> FALSE, ids |-> ids]

ShortLists == SeqsUpTo(DocIds, MaxShort)
LongLists  == {Cycle(b, n) : b \in [1..2 -> DocIds], n \in DetailLimit..MaxIds}
ReportLists == ShortLists \cup LongLists

\* the similarity_threshold keyword argument: not passed, or a value in hundredths
NoThreshold      == [given |-> FALSE, val |-> 0]
GivenThreshold(v) == [given |-> TRUE, val |-> v]
ThresholdArgs == {NoThreshold, GivenThreshold(85), GivenThreshold(50)}

Orderings(S) == {p \in [1..Cardinality(S) -> S] : \A x \in S : \E i \in DOMAIN p : p[i] = x}

SimAlphabet == {"a", "A", "b", " "}
SimInputs   == {Absent} \cup {Str(s) : s \in SeqsUpTo(SimAlphabet, MaxLen)}

\* pieces of OCR text: labels, tokens and lines in the forms the invoice
\* renderer prints them, and separators
TextPieces == {
    <<"I", "n", "v", "o", "i", "c", "e", " ", "#", ":", " ">>,
    <<"I", "n", "v", "o", "i", "c", "e", " ", "N", "u", "m", "b", "e", "r", ":", " ">>,
    <<"A", "-", "7">>,
    <<"I", "N", "V", "-", "1", "2">>,
    <<"\n">>,
    <<" ">>,
    <<"f", "r", "o", "m", ":", " ">>,
    <<"B", "o">>,
    <<"1", "\n">>,
    <<"S", "u", "b", "t", "o", "t", "a", "l", ":", " ", "9", "0", ".", "0", "0", " ", "U", "S", "D", "\n">>,
    <<"T", "O", "T", "A", "L", ":", " ", "1", "0", "0", ".", "5", "0", " ", "U", "S", "D">> }

RECURSIVE Concat(_)
\* the concatenation of a sequence of strings
Concat(parts) == IF parts = <<>> THEN <<>> ELSE Head(parts) \o Concat(Tail(parts))

\* the full texts handed to the extractor: up to MaxPieces pieces in a row
ExtractTexts == {Concat(ps) : ps \in SeqsUpTo(TextPieces, MaxPieces)}

\* the field names asked for: the tracked ones and one that is not tracked
ExtractFields == Fields \cup {"currency"}

\* the ground-truth values handed over for reference
ExtractTruths == {JStr(<<"B", "O">>), JStr(<<"z">>)}

----------------------------------------------------------------------------
(* DatasetOrganizer (src/src/data_collection/collect_invoices.py) *)

\* the DatasetOrganizer objects opened on the one base path
Organizers == {1, 2}

\* doc_id = f"doc_{datetime.now().strftime('%Y%m%d_%H%M%S_%f')}": the id is
\* the reading of the clock
DocIdAt(now) == now
DocIdSpace == {DocIdAt(t) : t \in 0..MaxTicks}

\* the files handed to add_document: their size, or no such file
SourceFiles == {[exists |-> TRUE, name |-> "test_image.png", size |-> 3],
                [exists |-> TRUE, name |-> "scan.png", size |-> 5],
                [exists |-> FALSE, name |-> "missing.png", size |-> 0]}

\* self.metadata of _load_metadata when there is no file; documents is the
\* dict in insertion order
NewMetadata == [documents |-> <<>>, total_documents |-> 0, total_size_bytes |-> 0]
NoManifest  == [exists |-> FALSE, data |-> NewMetadata]
NotConstructed == [exists |-> FALSE, metadata |-> NewMetadata]

\* _load_metadata
load_metadata(file) == IF file.exists THEN file.data ELSE NewMetadata

\* the keys of the dict documents
KeysOf(documents) == {documents[k].doc_id : k \in DOMAIN documents}

\* documents.get(doc_id): its position in the dict
PositionOf(documents, doc_id) == CHOOSE k \in DOMAIN documents : documents[k].doc_id = doc_id

\* documents[doc_id] = doc_metadata: a new key goes last, a key that is
\* there keeps its place
SetItem(documents, doc_metadata) ==
    IF doc_metadata.doc_id \in KeysOf(documents)
    THEN [documents EXCEPT ![PositionOf(documents, doc_metadata.doc_id)] = doc_metadata]
    ELSE Append(documents, doc_metadata)

\* del documents[doc_id]
DelItem(documents, doc_id) ==
    SelectSeq(documents, LAMBDA m : m.doc_id # doc_id)

\* the entry add_document builds for source at the clock reading now
DocMetadata(source, now) ==
    [doc_id |-> DocIdAt(now), filename |-> source.name, file_size_bytes |-> source.size]

\* self.metadata after add_document registered doc_metadata
Registered(metadata, doc_metadata) ==
    [documents |-> SetItem(metadata.documents, doc_metadata),
     total_documents |-> metadata.total_documents + 1,
     total_size_bytes |-> metadata.total_size_bytes + doc_metadata.file_size_bytes]

\* remove_document updating the statistics and leaving the entry in documents
UnregisteredKeepingEntry(metadata, doc_id) ==
    [documents |-> metadata.documents,
     total_documents |-> metadata.total_documents - 1,
     total_size_bytes |-> metadata.total_size_bytes
                          - metadata.documents[PositionOf(metadata.documents, doc_id)].file_size_bytes]

\* self.metadata after remove_document removed the registered doc_id
Unregistered(metadata, doc_id) ==
    [documents |-> DelItem(metadata.documents, doc_id),
     total_documents |-> metadata.total_documents - 1,
     total_size_bytes |-> metadata.total_size_bytes
                          - metadata.documents[PositionOf(metadata.documents, doc_id)].file_size_bytes]

\* the limit argument of list_documents: omitted, or an integer
NoLimit        == [given |-> FALSE, n |-> 0]
GivenLimit(n)  == [given |-> TRUE, n |-> n]
Limits == {NoLimit} \cup {GivenLimit(n) : n \in 0..MaxAdds}

\* list_documents: "if limit:" is false for 0 as for None
list_documents(documents, limit) ==
    IF limit.given /\ limit.n # 0 THEN Prefix(documents, limit.n) ELSE documents

\* get_document: the entry, or None
get_document(documents, doc_id) ==
    IF doc_id \in KeysOf(documents)
    THEN [none |-> FALSE, value |-> documents[PositionOf(documents, doc_id)]]
    ELSE [none |-> TRUE, value |-> DocMetadata([name |-> "", size |-> 0], 0)]

\* get_stats: the copy of statistics with the computed entries; the average
\* is the fraction total_size_bytes / total_documents
get_stats(metadata, raw, labelCount) ==
    [total_documents |-> metadata.total_documents,
     total_size_bytes |-> metadata.total_size_bytes,
     avg_file_size_bytes |-> IF metadata.total_documents > 0
                             THEN Frac(metadata.total_size_bytes, metadata.total_documents)
                             ELSE Zero,
     files_in_raw |-> Cardinality(raw),
     files_in_labels |-> labelCount]

\* no DatasetOrganizer was constructed and base_path holds nothing
DatasetIdle ==
    /\ clock = 0
    /\ organizers = [o \in Organizers |-> NotConstructed]
    /\ manifest = NoManifest
    /\ rawFiles = {}
    /\ metaFiles = {}

----------------------------------------------------------------------------
(* OCREngine (src/src/ocr/ocr_engine.py) *)

\* the engine argument of OCREngine
EngineChoices == {"paddle", "tesseract", "both"}

\* OCREngine.__init__: paddle_ocr and pytesseract are set when the engine
\* asks for the library and the library initialises, None otherwise
EngineInit(engine, paddleWorks, tesseractWorks) ==
    [exists |-> TRUE, engine |-> engine,
     paddle_ocr  |-> engine \in {"paddle", "both"} /\ paddleWorks,
     pytesseract |-> engine \in {"tesseract", "both"} /\ tesseractWorks]
NoEngine == [exists |-> FALSE, engine |-> "paddle", paddle_ocr |-> FALSE, pytesseract |-> FALSE]
EngineObjects == {EngineInit(e, p, t) : e \in EngineChoices, p \in BOOLEAN, t \in BOOLEAN}

\* one element of result[0] of PaddleOCR.ocr: an empty element, an element
\* [bbox, (text, confidence)], or one whose confidence float() rejects;
\* confidences are in hundredths
PaddleLine(kind, text, confidence) == [kind |-> kind, text |-> text, confidence |-> confidence]
PaddleLines == {PaddleLine("empty", <<>>, 0),
                PaddleLine("bad", <<"x">>, 0),
                PaddleLine("ok", <<"I","N","V">>, 90),
                PaddleLine("ok", <<>>, 50)}

\* what PaddleOCR.ocr does: it raises, or returns None, [None] or [lines]
PaddleScans ==
    {[outcome |-> o, lines |-> <<>>] : o \in {"raises", "none", "no_page"}}
    \cup {[outcome |-> "page", lines |-> ls] : ls \in SeqsUpTo(PaddleLines, MaxLines)}

\* one box of image_to_data: data['text'][i] and data['conf'][i]
TesseractBox(text, conf) == [text |-> text, conf |-> conf]
TesseractBoxes == {TesseractBox(<<" ">>, 96),
                   TesseractBox(<<"I","N","V">>, 96),
                   TesseractBox(<<" ","a"," ">>, -1),
                   TesseractBox(<<"b">>, 0),
                   TesseractBox(<<"c">>, 50)}

\* what cv2.imread and image_to_data do: the image cannot be read,
\* image_to_data raises, or it returns the boxes
TesseractScans ==
    {[outcome |-> o, boxes |-> <<>>] : o \in {"unreadable", "raises"}}
    \cup {[outcome |-> "data", boxes |-> bs] : bs \in SeqsUpTo(TesseractBoxes, MaxLines)}

\* the result returned after "except Exception"
ErrorResult(engine) ==
    [engine |-> engine, text_blocks |-> <<>>, full_text |-> <<>>, num_blocks |-> 0,
     avg_confidence |-> Zero, error |-> TRUE]

RECURSIVE Join(_, _)
\* sep.join(texts)
Join(sep, texts) ==
    IF texts = <<>> THEN <<>>
    ELSE IF Len(texts) = 1 THEN texts[1]
    ELSE texts[1] \o sep \o Join(sep, Tail(texts))

RECURSIVE ConfidenceSum(_)
ConfidenceSum(text_blocks) ==
    IF text_blocks = <<>> THEN 0
    ELSE Head(text_blocks).confidence + ConfidenceSum(Tail(text_blocks))

\* np.mean([b["confidence"] for b in text_blocks]) if text_blocks else 0.0
MeanConfidence(text_blocks) ==
    IF text_blocks = <<>> THEN Zero
    ELSE Frac(ConfidenceSum(text_blocks), 100 * Len(text_blocks))

\* the dictionary both extractors return from text_blocks and the list full_text
OcrResultOf(engine, text_blocks, full_text, sep) ==
    [engine |-> engine, text_blocks |-> text_blocks, full_text |-> Join(sep, full_text),
     num_blocks |-> Len(text_blocks), avg_confidence |-> MeanConfidence(text_blocks),
     error |-> FALSE]

\* the text block appended for a line or a box
TextBlock(text, confidence) == [text |-> text, confidence |-> confidence]

\* extract_text_paddle: [exc, value]
extract_text_paddle(engine, paddle) ==
    IF ~engine.paddle_ocr THEN [exc |-> "RuntimeError", value |-> ErrorResult("paddle")]
    ELSE IF paddle.outcome = "raises"
            \/ \E i \in DOMAIN paddle.lines : paddle.lines[i].kind = "bad"
    THEN [exc |-> "", value |-> ErrorResult("paddle")]
    ELSE [exc |-> "",
          value |-> OcrResultOf("paddle",
                        [i \in DOMAIN SelectSeq(paddle.lines, LAMBDA l : l.kind = "ok") |->
                            TextBlock(SelectSeq(paddle.lines, LAMBDA l : l.kind = "ok")[i].text,
                                      SelectSeq(paddle.lines, LAMBDA l : l.kind = "ok")[i].confidence)],
                        [i \in DOMAIN SelectSeq(paddle.lines, LAMBDA l : l.kind = "ok") |->
                            SelectSeq(paddle.lines, LAMBDA l : l.kind = "ok")[i].text],
                        <<"\n">>)]

\* the boxes whose stripped text is not empty
WithText(boxes) == SelectSeq(boxes, LAMBDA b : PyStrip(b.text) # <<>>)

\* the boxes that become text blocks: text and a confidence above 0
Detected(boxes) == SelectSeq(WithText(boxes), LAMBDA b : b.conf > 0)

\* the blocks and texts collected from the boxes kept and named
TesseractResult(kept, named) ==
    OcrResultOf("tesseract",
                [i \in DOMAIN kept |-> TextBlock(PyStrip(kept[i].text), kept[i].conf)],
                [i \in DOMAIN named |-> PyStrip(named[i].text)],
                <<" ">>)

\* extract_text_tesseract appending the text before the confidence is tested
extract_text_tesseract_text_first(engine, tesseract) ==
    IF ~engine.pytesseract THEN [exc |-> "RuntimeError", value |-> ErrorResult("tesseract")]
    ELSE IF tesseract.outcome \in {"unreadable", "raises"}
    THEN [exc |-> "", value |-> ErrorResult("tesseract")]
    ELSE [exc |-> "", value |-> TesseractResult(Detected(tesseract.boxes), WithText(tesseract.boxes))]

\* extract_text_tesseract: [exc, value]
extract_text_tesseract(engine, tesseract) ==
    IF ~engine.pytesseract THEN [exc |-> "RuntimeError", value |-> ErrorResult("tesseract")]
    ELSE IF tesseract.outcome \in {"unreadable", "raises"}
    THEN [exc |-> "", value |-> ErrorResult("tesseract")]
    ELSE [exc |-> "", value |-> TesseractResult(Detected(tesseract.boxes), Detected(tesseract.boxes))]

\* nothing is scanned: both libraries find no text
NoScan == [paddle |-> [outcome |-> "none", lines |-> <<>>],
           tesseract |-> [outcome |-> "data", boxes |-> <<>>]]

\* the names a directory listing can hold, in sorted path order, and those
\* the pattern "*.png" matches
SortedNames == <<"notes.txt", "test_0.png", "test_1.png", "test_2.png">>
PngNames    == {"test_0.png", "test_1.png", "test_2.png"}

\* state of a file of the input directory: not there, an image that is
\* processed, or one for which process_image raises (the file is gone when
\* it is opened, or its result cannot be written)
FileStates == {"absent", "image", "raising"}

\* list_files(input_path, pattern="*.png", recursive=False): sorted(path.glob(pattern))
list_files(dir) ==
    SelectSeq(SortedNames, LAMBDA name : name \in PngNames /\ dir[name] # "absent")

\* process_image: [exc, value], the value naming the engines that ran
process_image(engine, dir, name) ==
    IF dir[name] = "raising" THEN [exc |-> "OSError", value |-> [image_name |-> name, engines |-> {}]]
    ELSE [exc |-> "",
          value |-> [image_name |-> name,
                     engines |-> {e \in Engines :
                                     \/ e = "paddle" /\ engine.paddle_ocr
                                     \/ e = "tesseract" /\ engine.pytesseract}]]

\* the loop of batch_process ending at the first image that raises
BatchStepStopping(prev, outcome) ==
    IF prev.stopped THEN prev
    ELSE IF outcome.exc # ""
    THEN [results |-> prev.results, visited |-> Append(prev.visited, outcome.value.image_name),
          stopped |-> TRUE]
    ELSE [results |-> Append(prev.results, outcome.value),
          visited |-> Append(prev.visited, outcome.value.image_name), stopped |-> FALSE]

\* one pass of the loop of batch_process: try, append, except, continue
BatchStep(prev, outcome) ==
    IF outcome.exc # ""
    THEN [results |-> prev.results, visited |-> Append(prev.visited, outcome.value.image_name),
          stopped |-> FALSE]
    ELSE [results |-> Append(prev.results, outcome.value),
          visited |-> Append(prev.visited, outcome.value.image_name), stopped |-> FALSE]

RECURSIVE BatchLoop(_, _, _, _)
\* the loop of batch_process over the first k image files
BatchLoop(engine, dir, image_files, k) ==
    IF k = 0 THEN [results |-> <<>>, visited |-> <<>>, stopped |-> FALSE]
    ELSE BatchStep(BatchLoop(engine, dir, image_files, k - 1),
                   process_image(engine, dir, image_files[k]))

\* the summary batch_process writes
BatchSummary(image_files, results) ==
    [exists |-> TRUE, total_images |-> Len(image_files), successful |-> Len(results),
     failed |-> Len(image_files) - Len(results)]
NoSummary == [exists |-> FALSE, total_images |-> 0, successful |-> 0, failed |-> 0]

\* batch_process: the results, the images visited and the summary
batch_process(engine, dir) ==
    [results |-> BatchLoop(engine, dir, list_files(dir), Len(list_files(dir))).results,
     visited |-> BatchLoop(engine, dir, list_files(dir), Len(list_files(dir))).visited,
     summary |-> BatchSummary(list_files(dir),
                              BatchLoop(engine, dir, list_files(dir), Len(list_files(dir))).results)]

\* no OCREngine was constructed and the input directory is empty
EngineIdle ==
    /\ ocrEngine = NoEngine
    /\ scan = NoScan
    /\ imageDir = [name \in Range(SortedNames) |-> "absent"]
    /\ summaryFile = NoSummary

----------------------------------------------------------------------------
(* State *)

NoAnalyzer == [exists |-> FALSE, attrs |-> {}]
NoCall == [op |-> "none", engine |-> "", doc_id |-> "", doc_ids |-> NoList,
           listing |-> <<>>, threshold |-> NoThreshold]
NoResult == [kind |-> "none"]
Raise(exc) == [kind |-> "raise", exc |-> exc]
NoSimArgs == <<Absent, Absent>>
NoExtractArgs == [ocr_result |-> OcrMissing, field_name |-> "", ground_truth_value |-> JMissing]

Init ==
    /\ labels = [s \in Stems |-> FileAbsent]
    /\ ocrFiles = [d \in Stems |-> OcrAbsent]
    /\ analyzer = NoAnalyzer
    /\ call = NoCall
    /\ result = NoResult
    /\ simArgs = NoSimArgs
    /\ extractArgs = NoExtractArgs
    /\ DatasetIdle
    /\ EngineIdle

----------------------------------------------------------------------------
(* Operations *)

\* OCRErrorAnalyzer.__init__(labels_dir, ocr_results_dir): the signature takes
\* no other keyword; [exc, obj]
AnalyzerInit(threshold) ==
    IF threshold.given THEN [exc |-> "TypeError", obj |-> NoAnalyzer]
    ELSE [exc |-> "",
          obj |-> [exists |-> TRUE,
                   attrs |-> {"labels_dir", "ocr_results_dir", "logger", "key_fields"}]]

\* analyzer = OCRErrorAnalyzer(labels_dir=..., ocr_results_dir=...[, similarity_threshold=...])
Construct(threshold) ==
    /\ result.kind = "none"
    /\ LET r == AnalyzerInit(threshold)
       IN  IF r.exc # ""
           THEN result' = Raise(r.exc) /\ UNCHANGED analyzer
           ELSE result' = [kind |-> "constructed"] /\ analyzer' = r.obj
    /\ call' = [NoCall EXCEPT !.op = "init", !.threshold = threshold]
    /\ UNCHANGED <<labels, ocrFiles, simArgs, extractArgs, datasetVars, engineVars>>

\* a collaborator writes, replaces or removes labels_dir/{stem}.json
WriteLabel(stem, content) ==
    /\ result.kind = "none"
    /\ labels[stem] # content
    /\ labels' = [labels EXCEPT ![stem] = content]
    /\ UNCHANGED <<ocrFiles, analyzer, call, result, simArgs, extractArgs, datasetVars, engineVars>>

\* the record DatasetOrganizer.add_document saves: doc_id, filename,
\* file_extension, added_at, file_size_bytes, file_path and no tracked key
MetadataRecord == JDict(NoFields, TRUE)

\* DatasetOrganizer.add_document: writes labels_dir/{doc_id}_metadata.json
AddDocument(stem) ==
    /\ result.kind = "none"
    /\ labels[stem] # FileJson(MetadataRecord)
    /\ labels' = [labels EXCEPT ![stem] = FileJson(MetadataRecord)]
    /\ UNCHANGED <<ocrFiles, analyzer, call, result, simArgs, extractArgs, datasetVars, engineVars>>

\* DatasetOrganizer.remove_document: unlinks labels_dir/{doc_id}_metadata.json
RemoveDocument(stem) ==
    /\ result.kind = "none"
    /\ labels[stem].st # "absent"
    /\ labels' = [labels EXCEPT ![stem] = FileAbsent]
    /\ UNCHANGED <<ocrFiles, analyzer, call, result, simArgs, extractArgs, datasetVars, engineVars>>

\* a collaborator writes, replaces or removes the {doc_id}_ocr.json of a document
WriteOcr(doc_id, content) ==
    /\ result.kind = "none"
    /\ ocrFiles[doc_id] # content
    /\ ocrFiles' = [ocrFiles EXCEPT ![doc_id] = content]
    /\ UNCHANGED <<labels, analyzer, call, result, simArgs, extractArgs, datasetVars, engineVars>>

\* what the caller of analyze_field_errors gets: the exception, None, or the dictionary
Returned(r) ==
    IF r.exc # "" THEN Raise(r.exc)
    ELSE IF r.none THEN [kind |-> "analysis_none"]
    ELSE [kind |-> "analysis", value |-> r.value]

\* errors = analyzer.analyze_field_errors(doc_id, engine)
AnalyzeFieldErrors(doc_id, engine) ==
    /\ result.kind = "none"
    /\ analyzer.exists
    /\ result' = Returned(analyze_field_errors(doc_id, engine))
    /\ call' = [NoCall EXCEPT !.op = "analyze_field_errors", !.engine = engine, !.doc_id = doc_id]
    /\ UNCHANGED <<labels, ocrFiles, analyzer, simArgs, extractArgs, datasetVars, engineVars>>

\* "if not doc_ids": an empty list is replaced as None is
ResolveIdsIfFalsy(doc_ids, listing) ==
    IF doc_ids.none \/ doc_ids.ids = <<>> THEN Discovered(listing) ELSE doc_ids.ids

\* "if doc_ids is None": the ids that are analyzed
ResolveIds(doc_ids, listing) ==
    IF doc_ids.none THEN Discovered(listing) ELSE doc_ids.ids

\* generate_error_report
generate_error_report(engine, doc_ids, listing) ==
    ReportFor(engine, ResolveIds(doc_ids, listing))

\* report = analyzer.generate_error_report(engine, doc_ids); listing is the
\* order in which labels_dir.glob("*.json") would yield the label files
GenerateErrorReport(engine, doc_ids, listing) ==
    /\ result.kind = "none"
    /\ analyzer.exists
    /\ result' = generate_error_report(engine, doc_ids, listing)
    /\ call' = [NoCall EXCEPT !.op = "generate_error_report", !.engine = engine,
                              !.doc_ids = doc_ids,
                              !.listing = IF doc_ids.none THEN listing ELSE <<>>]
    /\ UNCHANGED <<labels, ocrFiles, analyzer, simArgs, extractArgs, datasetVars, engineVars>>

\* the caller is done with the value the last call returned or raised
Discard ==
    /\ result.kind # "none"
    /\ result' = NoResult
    /\ call' = NoCall
    /\ UNCHANGED <<labels, ocrFiles, analyzer, simArgs, extractArgs, datasetVars, engineVars>>

\* similarity = analyzer.calculate_similarity(str1, str2)
CalculateSimilarity ==
    /\ result.kind = "none"
    /\ result' = [kind |-> "similarity", value |-> calculate_similarity(simArgs[1], simArgs[2])]
    /\ call' = [NoCall EXCEPT !.op = "calculate_similarity"]
    /\ UNCHANGED <<labels, ocrFiles, analyzer, simArgs, extractArgs, datasetVars, engineVars>>

\* what the caller of _extract_field_from_ocr gets: the exception, or the string
Extracted(r) ==
    IF r.exc # "" THEN Raise(r.exc) ELSE [kind |-> "extracted", value |-> r.value]

\* value = analyzer._extract_field_from_ocr(ocr_result, field_name, ground_truth_value)
ExtractField ==
    /\ result.kind = "none"
    /\ result' = Extracted(extract_field_from_ocr(extractArgs.ocr_result, extractArgs.field_name,
                                                  extractArgs.ground_truth_value))
    /\ call' = [NoCall EXCEPT !.op = "extract_field_from_ocr"]
    /\ UNCHANGED <<labels, ocrFiles, analyzer, simArgs, extractArgs, datasetVars, engineVars>>

LabelFiles == {stem \in Stems : labels[stem].st # "absent"}

\* with an explicit list the directory is not listed: one order stands for all
SomeListing == CHOOSE p \in Orderings(LabelFiles) : TRUE

\* a corpus of well-formed, missing and unparsable records, with requests of
\* every length
Next ==
    \/ \E t \in ThresholdArgs : Construct(t)
    \/ \E d \in DocIds : \E c \in CorpusLabelContents : WriteLabel(d, c)
    \/ \E s \in MetadataStems : AddDocument(s)
    \/ \E s \in MetadataStems : RemoveDocument(s)
    \/ \E d \in DocIds : \E c \in CorpusOcrContents : WriteOcr(d, c)
    \/ \E d \in DocIds : \E e \in Engines : AnalyzeFieldErrors(d, e)
    \/ \E e \in Engines : \E ids \in ReportLists :
          GenerateErrorReport(e, IdList(ids), SomeListing)
    \/ \E e \in Engines : \E p \in Orderings(LabelFiles) : GenerateErrorReport(e, NoList, p)
    \/ Discard

Spec == Init /\ [][Next]_vars

\* stores that hold every kind of record, with short requests
NextRecords ==
    \/ \E t \in ThresholdArgs : Construct(t)
    \/ \E d \in DocIds : \E c \in LabelContents : WriteLabel(d, c)
    \/ \E d \in DocIds : \E c \in OcrContents : WriteOcr(d, c)
    \/ \E d \in DocIds : \E e \in Engines : AnalyzeFieldErrors(d, e)
    \/ \E e \in Engines : \E ids \in SeqsUpTo(DocIds, MaxFew) :
          GenerateErrorReport(e, IdList(ids), SomeListing)
    \/ \E e \in Engines : \E p \in Orderings(LabelFiles) : GenerateErrorReport(e, NoList, p)
    \/ Discard

SpecRecords == Init /\ [][NextRecords]_vars

\* the similarity scorer on its own: the arguments are drawn at the start
InitSim ==
    /\ labels = [s \in Stems |-> FileAbsent]
    /\ ocrFiles = [d \in Stems |-> OcrAbsent]
    /\ analyzer = AnalyzerInit(NoThreshold).obj
    /\ call = NoCall
    /\ result = NoResult
    /\ simArgs \in SimInputs \X SimInputs
    /\ extractArgs = NoExtractArgs
    /\ DatasetIdle
    /\ EngineIdle

NextSim == CalculateSimilarity \/ Discard

SpecSim == InitSim /\ [][NextSim]_vars

\* the field extractor on its own: the arguments are drawn at the start
InitExtract ==
    /\ labels = [s \in Stems |-> FileAbsent]
    /\ ocrFiles = [d \in Stems |-> OcrAbsent]
    /\ analyzer = AnalyzerInit(NoThreshold).obj
    /\ call = NoCall
    /\ result = NoResult
    /\ simArgs = NoSimArgs
    /\ \E text \in ExtractTexts, f \in ExtractFields, gt \in ExtractTruths :
          extractArgs = [ocr_result |-> OcrDict(JStr(text), JFloat(95), JInt(1), FALSE),
                         field_name |-> f, ground_truth_value |-> gt]
    /\ DatasetIdle
    /\ EngineIdle

NextExtract == ExtractField \/ Discard

SpecExtract == InitExtract /\ [][NextExtract]_vars

\* the call record of an operation on organizer o
OrganizerCall(op, o, doc_id, limit) ==
    [op |-> op, organizer |-> o, doc_id |-> doc_id, limit |-> limit]

\* time passes: the next datetime.now() gives a later reading
Tick ==
    /\ clock < MaxTicks
    /\ clock' = clock + 1
    /\ UNCHANGED <<labels, ocrFiles, analyzer, call, result, simArgs, extractArgs, engineVars,
                   organizers, manifest, rawFiles, metaFiles>>

\* organizer = DatasetOrganizer(base_path)
ConstructOrganizer(o) ==
    /\ result.kind = "none"
    /\ ~organizers[o].exists
    /\ organizers' = [organizers EXCEPT ![o] = [exists |-> TRUE, metadata |-> load_metadata(manifest)]]
    /\ result' = [kind |-> "constructed"]
    /\ call' = OrganizerCall("init", o, 0, NoLimit)
    /\ UNCHANGED <<labels, ocrFiles, analyzer, simArgs, extractArgs, engineVars, clock, manifest, rawFiles, metaFiles>>

\* doc_id = organizer.add_document(file_path)
AddDocumentTo(o, source) ==
    /\ result.kind = "none"
    /\ organizers[o].exists
    /\ organizers[o].metadata.total_documents < MaxAdds
    /\ call' = OrganizerCall("add_document", o, DocIdAt(clock), NoLimit)
    /\ IF ~source.exists
       THEN /\ result' = Raise("FileNotFoundError")
            /\ UNCHANGED <<organizers, manifest, rawFiles, metaFiles>>
       ELSE /\ rawFiles' = rawFiles \cup {DocIdAt(clock)}
            /\ metaFiles' = metaFiles \cup {DocIdAt(clock)}
            /\ organizers' = [organizers EXCEPT ![o].metadata =
                                  Registered(organizers[o].metadata, DocMetadata(source, clock))]
            /\ manifest' = [exists |-> TRUE,
                            data |-> Registered(organizers[o].metadata, DocMetadata(source, clock))]
            /\ result' = [kind |-> "added", value |-> DocIdAt(clock)]
    /\ UNCHANGED <<labels, ocrFiles, analyzer, simArgs, extractArgs, engineVars, clock>>

\* success = organizer.remove_document(doc_id)
RemoveDocumentFrom(o, doc_id) ==
    /\ result.kind = "none"
    /\ organizers[o].exists
    /\ call' = OrganizerCall("remove_document", o, doc_id, NoLimit)
    /\ IF doc_id \notin KeysOf(organizers[o].metadata.documents)
       THEN /\ result' = [kind |-> "removed", value |-> FALSE]
            /\ UNCHANGED <<organizers, manifest, rawFiles, metaFiles>>
       ELSE /\ rawFiles' = rawFiles \ {doc_id}
            /\ metaFiles' = metaFiles \ {doc_id}
            /\ organizers' = [organizers EXCEPT ![o].metadata =
                                  Unregistered(organizers[o].metadata, doc_id)]
            /\ manifest' = [exists |-> TRUE,
                            data |-> Unregistered(organizers[o].metadata, doc_id)]
            /\ result' = [kind |-> "removed", value |-> TRUE]
    /\ UNCHANGED <<labels, ocrFiles, analyzer, simArgs, extractArgs, engineVars, clock>>

\* documents = organizer.list_documents(limit)
ListDocuments(o, limit) ==
    /\ result.kind = "none"
    /\ organizers[o].exists
    /\ result' = [kind |-> "listed", value |-> list_documents(organizers[o].metadata.documents, limit)]
    /\ call' = OrganizerCall("list_documents", o, 0, limit)
    /\ UNCHANGED <<labels, ocrFiles, analyzer, simArgs, extractArgs, datasetVars, engineVars>>

\* doc_metadata = organizer.get_document(doc_id)
GetDocument(o, doc_id) ==
    /\ result.kind = "none"
    /\ organizers[o].exists
    /\ result' = [kind |-> "document", value |-> get_document(organizers[o].metadata.documents, doc_id)]
    /\ call' = OrganizerCall("get_document", o, doc_id, NoLimit)
    /\ UNCHANGED <<labels, ocrFiles, analyzer, simArgs, extractArgs, datasetVars, engineVars>>

\* stats = organizer.get_stats()
GetStats(o) ==
    /\ result.kind = "none"
    /\ organizers[o].exists
    /\ result' = [kind |-> "stats",
                  value |-> get_stats(organizers[o].metadata, rawFiles, Cardinality(metaFiles))]
    /\ call' = OrganizerCall("get_stats", o, 0, NoLimit)
    /\ UNCHANGED <<labels, ocrFiles, analyzer, simArgs, extractArgs, datasetVars, engineVars>>

\* the dataset bookkeeping: up to two organizers on one base path
NextDataset ==
    \/ Tick
    \/ \E o \in Organizers : ConstructOrganizer(o)
    \/ \E o \in Organizers : \E source \in SourceFiles : AddDocumentTo(o, source)
    \/ \E o \in Organizers : \E d \in DocIdSpace : RemoveDocumentFrom(o, d)
    \/ \E o \in Organizers : \E limit \in Limits : ListDocuments(o, limit)
    \/ \E o \in Organizers : \E d \in DocIdSpace : GetDocument(o, d)
    \/ \E o \in Organizers : GetStats(o)
    \/ Discard

SpecDataset == Init /\ [][NextDataset]_vars

\* result = engine.extract_text_paddle(image_path)
ExtractTextPaddle ==
    /\ result.kind = "none"
    /\ ocrEngine.exists
    /\ result' = IF extract_text_paddle(ocrEngine, scan.paddle).exc # ""
                 THEN Raise(extract_text_paddle(ocrEngine, scan.paddle).exc)
                 ELSE [kind |-> "ocr_result", value |-> extract_text_paddle(ocrEngine, scan.paddle).value]
    /\ call' = [NoCall EXCEPT !.op = "extract_text_paddle"]
    /\ UNCHANGED <<labels, ocrFiles, analyzer, simArgs, extractArgs, datasetVars, engineVars>>

\* result = engine.extract_text_tesseract(image_path)
ExtractTextTesseract ==
    /\ result.kind = "none"
    /\ ocrEngine.exists
    /\ result' = IF extract_text_tesseract(ocrEngine, scan.tesseract).exc # ""
                 THEN Raise(extract_text_tesseract(ocrEngine, scan.tesseract).exc)
                 ELSE [kind |-> "ocr_result", value |-> extract_text_tesseract(ocrEngine, scan.tesseract).value]
    /\ call' = [NoCall EXCEPT !.op = "extract_text_tesseract"]
    /\ UNCHANGED <<labels, ocrFiles, analyzer, simArgs, extractArgs, datasetVars, engineVars>>

\* the two extractors on one image: the engine and what the libraries find
\* are drawn at the start
InitOcr ==
    /\ labels = [s \in Stems |-> FileAbsent]
    /\ ocrFiles = [d \in Stems |-> OcrAbsent]
    /\ analyzer = NoAnalyzer
    /\ call = NoCall
    /\ result = NoResult
    /\ simArgs = NoSimArgs
    /\ extractArgs = NoExtractArgs
    /\ DatasetIdle
    /\ ocrEngine \in EngineObjects
    /\ scan \in [paddle : PaddleScans, tesseract : TesseractScans]
    /\ imageDir = [name \in Range(SortedNames) |-> "absent"]
    /\ summaryFile = NoSummary

NextOcr == ExtractTextPaddle \/ ExtractTextTesseract \/ Discard

SpecOcr == InitOcr /\ [][NextOcr]_vars

\* engine = OCREngine(engine=...)
ConstructEngine(obj) ==
    /\ result.kind = "none"
    /\ ~ocrEngine.exists
    /\ ocrEngine' = obj
    /\ result' = [kind |-> "constructed"]
    /\ call' = [NoCall EXCEPT !.op = "init"]
    /\ UNCHANGED <<labels, ocrFiles, analyzer, simArgs, extractArgs, datasetVars,
                   scan, imageDir, summaryFile>>

\* a file of the input directory is written, removed, or becomes one that
\* process_image fails on
PutImage(name, state) ==
    /\ result.kind = "none"
    /\ imageDir[name] # state
    /\ imageDir' = [imageDir EXCEPT ![name] = state]
    /\ UNCHANGED <<labels, ocrFiles, analyzer, call, result, simArgs, extractArgs, datasetVars,
                   ocrEngine, scan, summaryFile>>

\* results = engine.batch_process(input_dir, output_dir, pattern="*.png")
BatchProcess ==
    /\ result.kind = "none"
    /\ ocrEngine.exists
    /\ result' = [kind |-> "batch", value |-> batch_process(ocrEngine, imageDir).results,
                  visited |-> batch_process(ocrEngine, imageDir).visited]
    /\ summaryFile' = batch_process(ocrEngine, imageDir).summary
    /\ call' = [NoCall EXCEPT !.op = "batch_process"]
    /\ UNCHANGED <<labels, ocrFiles, analyzer, simArgs, extractArgs, datasetVars,
                   ocrEngine, scan, imageDir>>

NextBatch ==
    \/ \E obj \in EngineObjects : ConstructEngine(obj)
    \/ \E name \in Range(SortedNames) : \E state \in FileStates : PutImage(name, state)
    \/ BatchProcess
    \/ Discard

SpecBatch == Init /\ [][NextBatch]_vars

----------------------------------------------------------------------------
(* Properties *)

IsReport   == call.op = "generate_error_report" /\ result.kind = "report"
IsAnalysis == call.op = "analyze_field_errors" /\ result.kind = "analysis"
IsSimilarity == call.op = "calculate_similarity" /\ result.kind = "similarity"

\* the ids the last generate_error_report call went through
RequestedIds == IF call.doc_ids.none THEN Discovered(call.listing) ELSE call.doc_ids.ids

\* positions of the request whose document was analyzed
AnalyzedAt(ids, engine) ==
    {i \in DOMAIN ids : LET r == analyze_field_errors(ids[i], engine)
                        IN  r.exc = "" /\ ~r.none}

\* number of positions of ids that hold d
Occurrences(ids, d) == Cardinality({i \in DOMAIN ids : ids[i] = d})

IsZero(x) == x.num = 0 /\ x.den > 0
IsOne(x)  == x.num = x.den /\ x.den > 0

TestDocStored ==
    /\ labels["test_doc"] = FileJson(FixtureLabel)
    /\ ocrFiles["test_doc"] = OcrJson("paddle", Only("paddle", FixtureOcr))

\* C1: with the test fixture stored as test_doc, analyze_field_errors gives for
\* each tracked field an extracted value equal to the string form of the
\* ground truth, similarity 1.0 and is_correct, and the report for the list
\* [test_doc] has field_accuracy["overall"] = 1.0.
C1_EndToEndAllExact ==
    TestDocStored =>
      /\ (call.op = "analyze_field_errors" /\ call.doc_id = "test_doc" /\ call.engine = "paddle")
            => /\ result.kind = "analysis"
               /\ \A f \in Fields :
                     LET fe == result.value.field_errors[f]
                     IN  /\ fe.ocr_extracted = PyStr(FixtureLabel.fields[f])
                         /\ IsOne(fe.similarity)
                         /\ fe.is_correct
      /\ (call.op = "generate_error_report" /\ call.engine = "paddle"
            /\ call.doc_ids = IdList(<<"test_doc">>))
            => /\ result.kind = "report"
               /\ IsOne(result.field_accuracy["overall"])

\* C2: the constructor accepts a similarity_threshold argument and exposes it
\* as an attribute, and every FieldError has is_correct exactly when its
\* similarity is at least the configured threshold (0.85 when none is given).
C2_ThresholdConfigurable ==
    /\ (call.op = "init" /\ call.threshold.given)
          => /\ result.kind = "constructed"
             /\ "similarity_threshold" \in analyzer.attrs
    /\ IsAnalysis
          => \A f \in Fields :
                LET fe == result.value.field_errors[f]
                IN  fe.is_correct <=> (100 * fe.similarity.num >= 85 * fe.similarity.den)

\* C3: generate_error_report returns a complete report whatever the stored
\* records hold; it never raises.
C3_ReportNeverRaises ==
    call.op = "generate_error_report" => result.kind = "report"

\* the ground truth or the OCR file of d is missing or not parsable
MissingOrUnparsable(d, engine) ==
    \/ labels[d].st \in {"absent", "corrupt"}
    \/ ocrFiles[d].st \in {"absent", "corrupt"}
    \/ ocrFiles[d].dir # engine

Without(ids, d) == SelectSeq(ids, LAMBDA x : x # d)

\* C4: a document whose ground truth or OCR result is missing or unparsable
\* makes analyze_field_errors return None without raising, and the report is
\* the one of the same request without that document, except for
\* total_documents.
C4_SkippedDocumentExcluded ==
    /\ (call.op = "analyze_field_errors" /\ MissingOrUnparsable(call.doc_id, call.engine))
          => result.kind = "analysis_none"
    /\ call.op = "generate_error_report"
          => \A d \in DocIds :
                (MissingOrUnparsable(d, call.engine) /\ Occurrences(RequestedIds, d) > 0)
                => LET other == ReportFor(call.engine, Without(RequestedIds, d))
                   IN  /\ other.kind = result.kind
                       /\ result.kind = "report"
                             => /\ result.analyzed_documents = other.analyzed_documents
                                /\ result.field_accuracy = other.field_accuracy
                                /\ result.summary = other.summary
                                /\ result.detailed_errors = other.detailed_errors
                                /\ result.total_documents
                                      = other.total_documents + Occurrences(RequestedIds, d)

\* C4 witness: a report over a request that holds a skipped, missing document
\* next to an analyzed one
C4_Witness ==
    /\ IsReport
    /\ result.analyzed_documents >= 1
    /\ \E d \in DocIds : /\ MissingOrUnparsable(d, call.engine)
                         /\ Occurrences(RequestedIds, d) > 0

\* both records of d are stored and parse as mappings
PresentAndParsed(d, engine) ==
    /\ labels[d].st = "json" /\ labels[d].val.t = "dict"
    /\ ocrFiles[d].st = "json" /\ ocrFiles[d].dir = engine
    /\ ocrFiles[d].top = "dict"
    /\ ocrFiles[d].entries[engine].t = "dict"

\* C5: total_documents is the number of requested ids and analyzed_documents
\* the number of requested ids whose ground truth and OCR result are both
\* stored and parse, whatever they contain.
C5_AnalyzedCountsPresentRecords ==
    IsReport =>
      /\ result.total_documents = Len(RequestedIds)
      /\ result.analyzed_documents
            = Cardinality({i \in DOMAIN RequestedIds : PresentAndParsed(RequestedIds[i], call.engine)})
      /\ result.analyzed_documents <= result.total_documents

\* C6: field_accuracy[f] is the number of analyzed documents whose FieldError
\* for f is correct over the number of analyzed documents carrying f, and 0.0
\* when none carries it; "overall" is the sum of the correct counts over the
\* sum of the totals, and 0.0 when that is 0.
C6_FieldAccuracyIsRatio ==
    IsReport =>
      LET ids  == RequestedIds
          at   == AnalyzedAt(ids, call.engine)
          fe(i) == analyze_field_errors(ids[i], call.engine).value.field_errors
          carrying(f) == {i \in at : f \in DOMAIN fe(i)}
          correct(f)  == {i \in carrying(f) : fe(i)[f].is_correct}
          pairs       == {<<i, f>> \in at \X Fields : f \in DOMAIN fe(i)}
          good        == {p \in pairs : fe(p[1])[p[2]].is_correct}
      IN  /\ \A f \in Fields :
                IF carrying(f) = {} THEN IsZero(result.field_accuracy[f])
                ELSE FracEq(result.field_accuracy[f],
                            Frac(Cardinality(correct(f)), Cardinality(carrying(f))))
          /\ IF pairs = {} THEN IsZero(result.field_accuracy["overall"])
             ELSE FracEq(result.field_accuracy["overall"],
                         Frac(Cardinality(good), Cardinality(pairs)))

\* C6 witness: a field correct in 3 of 4 analyzed documents, with accuracy 0.75
C6_Witness ==
    /\ IsReport
    /\ result.analyzed_documents = 4
    /\ \E f \in Fields : /\ result.field_accuracy[f].num = 3
                         /\ FracEq(result.field_accuracy[f], Frac(75, 100))

\* C7: when no requested document is analyzable the call returns a report with
\* analyzed_documents 0, every field_accuracy entry 0.0, both summary means
\* 0.0 and no detailed_errors; an explicit empty list stays empty.
C7_NothingAnalyzable ==
    /\ (call.op = "generate_error_report"
          /\ \A i \in DOMAIN RequestedIds :
                LET r == analyze_field_errors(RequestedIds[i], call.engine)
                IN  r.exc = "" /\ r.none)
          => /\ result.kind = "report"
             /\ result.analyzed_documents = 0
             /\ \A f \in Fields \cup {"overall"} : IsZero(result.field_accuracy[f])
             /\ IsZero(result.summary.avg_confidence)
             /\ IsZero(result.summary.avg_blocks_per_doc)
             /\ result.detailed_errors = <<>>
    /\ (call.op = "generate_error_report" /\ call.doc_ids = IdList(<<>>))
          => /\ result.kind = "report"
             /\ result.total_documents = 0
             /\ result.analyzed_documents = 0

\* C7 witness: an explicit empty list while the label store holds a document
\* that discovery would have found and analyzed
C7_Witness ==
    /\ IsReport
    /\ call.doc_ids = IdList(<<>>)
    /\ \E d \in LabelFiles :
          LET r == analyze_field_errors(d, call.engine) IN r.exc = "" /\ ~r.none

\* the k-th smallest element of a set of positions
RECURSIVE KthOf(_, _)
KthOf(S, k) ==
    LET m == CHOOSE x \in S : \A y \in S : x <= y
    IN  IF k = 1 THEN m ELSE KthOf(S \ {m}, k - 1)

\* C8: detailed_errors is the prefix of length min(10, analyzed_documents) of
\* the analyses of the analyzed documents in the order of the id list.
C8_DetailedErrorsIsPrefix ==
    IsReport =>
      LET ids == RequestedIds
          at  == AnalyzedAt(ids, call.engine)
          n   == IF Cardinality(at) < 10 THEN Cardinality(at) ELSE 10
      IN  /\ Len(result.detailed_errors) = n
          /\ result.analyzed_documents = Cardinality(at)
          /\ \A k \in 1..n :
                result.detailed_errors[k]
                   = analyze_field_errors(ids[KthOf(at, k)], call.engine).value

\* C8 witness: more than 10 analyzed documents, of two kinds, cut to 10
C8_Witness ==
    /\ IsReport
    /\ result.analyzed_documents > 10
    /\ Len(result.detailed_errors) = 10
    /\ result.detailed_errors[1].doc_id # result.detailed_errors[2].doc_id

\* x and y are the same character up to letter case
SameLetter(x, y) ==
    \/ x = y
    \/ \E i \in DOMAIN UpperChars :
          {x, y} = {UpperChars[i], LowerChars[i]}

\* a and b differ only in letter case and in leading and trailing whitespace
SameUpToCaseAndPadding(a, b) ==
    \E la \in 0..Len(a), lb \in 0..Len(b) :
    \E ra \in 0..(Len(a) - la), rb \in 0..(Len(b) - lb) :
       /\ \A i \in 1..la : a[i] \in SpaceSet
       /\ \A i \in 1..lb : b[i] \in SpaceSet
       /\ \A i \in (Len(a) - ra + 1)..Len(a) : a[i] \in SpaceSet
       /\ \A i \in (Len(b) - rb + 1)..Len(b) : b[i] \in SpaceSet
       /\ Len(a) - la - ra = Len(b) - lb - rb
       /\ \A i \in 1..(Len(a) - la - ra) : SameLetter(a[la + i], b[lb + i])

\* C9: calculate_similarity is 1.0 for two equal non-empty strings, and for
\* two non-empty strings that differ only in letter case and in leading or
\* trailing whitespace.
C9_SimilarityOfEqualIsOne ==
    (IsSimilarity
       /\ ~simArgs[1].none /\ ~simArgs[2].none
       /\ simArgs[1].s # <<>> /\ simArgs[2].s # <<>>
       /\ SameUpToCaseAndPadding(simArgs[1].s, simArgs[2].s))
    => IsOne(result.value)

\* C9 witness: two different strings, equal up to case and padding
C9_Witness ==
    /\ IsSimilarity
    /\ simArgs = <<Str(<<" ", "A", "b">>), Str(<<"a", "b", " ">>)>>
    /\ IsOne(result.value)

\* C10: calculate_similarity is exactly 0.0 when an argument is the empty
\* string or None, and lies in [0, 1] for all arguments.
C10_SimilarityZeroAndBounded ==
    IsSimilarity =>
      /\ (simArgs[1].none \/ simArgs[1].s = <<>> \/ simArgs[2].none \/ simArgs[2].s = <<>>)
            => IsZero(result.value)
      /\ result.value.den > 0
      /\ 0 <= result.value.num
      /\ result.value.num <= result.value.den

\* C10 witness: an empty string against a non-empty one
C10_Witness ==
    /\ IsSimilarity
    /\ simArgs[1] = Str(<<>>)
    /\ simArgs[2] = Str(<<"a", "b">>)
    /\ IsZero(result.value)

\* the argument is a string that is empty once lowercased and trimmed
EmptyOnceNormalized(x) == ~x.none /\ PyStrip(PyLower(x.s)) = <<>>

C12_SymmetricForEqualLength ==
    (IsSimilarity
       /\ ~simArgs[1].none /\ ~simArgs[2].none
       /\ Len(simArgs[1].s) = Len(simArgs[2].s))
    => FracEq(result.value, calculate_similarity(simArgs[2], simArgs[1]))

\* C12 as amended: calculate_similarity(a, b) = calculate_similarity(b, a) for
\* strings a and b of the same length of at most 2 characters.
C12_SymmetricUpToTwo ==
    (IsSimilarity
       /\ ~simArgs[1].none /\ ~simArgs[2].none
       /\ Len(simArgs[1].s) = Len(simArgs[2].s)
       /\ Len(simArgs[1].s) <= 2)
    => FracEq(result.value, calculate_similarity(simArgs[2], simArgs[1]))

\* C12 witness: two different strings of 2 characters that share a block
C12_Witness ==
    /\ IsSimilarity
    /\ simArgs = <<Str(<<"a", "b">>), Str(<<"b", "A">>)>>
    /\ FracEq(result.value, Frac(1, 2))

IsExtraction == call.op = "extract_field_from_ocr" /\ result.kind = "extracted"

\* the full text, the field name and the ground truth of the last extraction
ExText  == extractArgs.ocr_result.full_text.s
ExField == extractArgs.field_name
ExTruth == extractArgs.ground_truth_value

\* the indexes of the patterns of a field that match somewhere in text
MatchingPatterns(field_name, text) ==
    {k \in DOMAIN PatternsOf(field_name) : ReSearch(PatternsOf(field_name)[k], text).found}

\* the first capturing group of the lowest-index pattern that matches
FirstGroup(field_name, text) ==
    ReSearch(PatternsOf(field_name)[Least(MatchingPatterns(field_name, text))], text).group

InvoiceLabelled == <<"I", "n", "v", "o", "i", "c", "e", " ", "#", ":", " ">>
Tokens == {<<"A", "-", "7">>, <<"I", "N", "V", "-", "1", "2">>}

\* C13: the extractor returns the first capturing group of the lowest-index
\* pattern of the field that matches anywhere in the text, and the fallback's
\* result only when no pattern matches or the field is not tracked; for the
\* text "Invoice #: T" the invoice_number is T.
C13_FirstMatchWins ==
    IsExtraction =>
      /\ IF MatchingPatterns(ExField, ExText) # {}
         THEN result.value = FirstGroup(ExField, ExText)
         ELSE result.value = Fallback(ExText, ExTruth)
      /\ \A t \in Tokens :
            (ExField = "invoice_number" /\ ExText = InvoiceLabelled \o t) => result.value = t

\* C13 as amended: as C13, the group of a vendor_name pattern being returned
\* without its leading and trailing whitespace.
C13_FirstMatchWinsStripped ==
    IsExtraction =>
      /\ IF MatchingPatterns(ExField, ExText) # {}
         THEN result.value = IF ExField = "vendor_name"
                             THEN PyStrip(FirstGroup(ExField, ExText))
                             ELSE FirstGroup(ExField, ExText)
         ELSE result.value = Fallback(ExText, ExTruth)
      /\ \A t \in Tokens :
            (ExField = "invoice_number" /\ ExText = InvoiceLabelled \o t) => result.value = t

\* C13 witness: the text "Invoice #: INV-12", which the first and the second
\* invoice_number pattern match, read by the first
C13_Witness ==
    /\ IsExtraction
    /\ ExField = "invoice_number"
    /\ ExText = InvoiceLabelled \o <<"I", "N", "V", "-", "1", "2">>
    /\ MatchingPatterns(ExField, ExText) = {1, 2}
    /\ result.value = <<"I", "N", "V", "-", "1", "2">>

TotalLine == <<"T", "O", "T", "A", "L", ":", " ", "1", "0", "0", ".", "5", "0", " ", "U", "S", "D">>

\* C14: for every full text that contains "TOTAL: 100.50 USD", whatever
\* precedes or follows it, the total_amount extracted is "100.50".
C14_TotalLineIsRead ==
    (IsExtraction /\ ExField = "total_amount" /\ Contains(ExText, TotalLine))
    => result.value = <<"1", "0", "0", ".", "5", "0">>

NumberLabelled == <<"I", "n", "v", "o", "i", "c", "e", " ", "N", "u", "m", "b", "e", "r", ":", " ">>

\* C15: for the text "Invoice Number: T", T a token of uppercase letters,
\* digits and dashes that is not of the INV-digits shape, the invoice_number
\* extracted is T.
C15_NumberLabelIsRead ==
    (IsExtraction /\ ExField = "invoice_number" /\ ExText = NumberLabelled \o <<"A", "-", "7">>)
    => result.value = <<"A", "-", "7">>

\* the lines of the full text, and the ones whose lowercase form contains the
\* lowercased string form of the ground truth
ExLines == SplitOn(ExText, "\n")
ExHits  == {i \in DOMAIN ExLines : Contains(PyLower(ExLines[i]), PyLower(PyStr(ExTruth)))}

\* C16: when no pattern of the field matches, the extractor returns the first
\* line whose lowercase form contains the lowercased ground truth, unmodified
\* (original casing, nothing trimmed), and the empty string when there is none.
C16_FallbackLineVerbatim ==
    (IsExtraction /\ MatchingPatterns(ExField, ExText) = {})
    => result.value = IF ExHits = {} THEN <<>> ELSE ExLines[Least(ExHits)]

\* C16 as amended: the line is returned in its original casing with its
\* leading and trailing whitespace removed.
C16_FallbackLineStripped ==
    (IsExtraction /\ MatchingPatterns(ExField, ExText) = {})
    => result.value = IF ExHits = {} THEN <<>> ELSE PyStrip(ExLines[Least(ExHits)])

\* C16 witness: the line holds the ground truth in another casing and after a
\* leading blank
C16_Witness ==
    /\ IsExtraction
    /\ ExField = "currency"
    /\ ExTruth = JStr(<<"B", "O">>)
    /\ ExText = <<" ", "B", "o">>
    /\ result.value = <<"B", "o">>

\* the number of leading characters of text that are letters, whitespace,
\* "&", "," or "."
StartRun(text) ==
    CHOOSE n \in 0..Len(text) :
       /\ \A i \in 1..n : text[i] \in VendorClass
       /\ n < Len(text) => text[n + 1] \notin VendorClass

\* C17: for vendor_name and a text without a "from" label, the second pattern
\* yields a value only if the first character of the whole text is a capital
\* letter, the value being the run of letters, spaces, "&", "," and "." at the
\* start of the text (returned trimmed); otherwise the result is the fallback's.
C17_VendorRunOnlyAtTextStart ==
    (IsExtraction /\ ExField = "vendor_name" /\ ~Contains(PyLower(ExText), WordFrom))
    => result.value = IF ExText # <<>> /\ ExText[1] \in UpperSet /\ StartRun(ExText) >= 2
                      THEN PyStrip(SubSeq(ExText, 1, StartRun(ExText)))
                      ELSE Fallback(ExText, ExTruth)

\* the ground-truth value of field f and the full text stored for document d
DocTruth(d, f)    == labels[d].val.fields[f]
DocText(d, engine) == FullTextOf(ocrFiles[d].entries[engine]).s

\* no pattern of f matches the text of d and no line of it holds the ground
\* truth, compared in lowercase as the fallback compares
NothingToExtract(d, engine, f) ==
    /\ MatchingPatterns(f, DocText(d, engine)) = {}
    /\ \A i \in DOMAIN SplitOn(DocText(d, engine), "\n") :
          ~Contains(PyLower(SplitOn(DocText(d, engine), "\n")[i]), PyLower(PyStr(DocTruth(d, f))))

\* C18: a tracked field with no matching pattern and no line holding the
\* ground truth gets the extracted value "", similarity 0.0 and is_correct
\* false, and is counted like any analyzed field: in a report the divisor of
\* each field's accuracy is the number of analyzed documents.
C18_NoMatchIsOrdinaryField ==
    /\ IsAnalysis =>
          \A f \in Fields :
             NothingToExtract(call.doc_id, call.engine, f)
             => /\ result.value.field_errors[f].ocr_extracted = <<>>
                /\ IsZero(result.value.field_errors[f].similarity)
                /\ ~result.value.field_errors[f].is_correct
    /\ (IsReport /\ AnalyzedAt(RequestedIds, call.engine) # {}) =>
          \A f \in Fields :
             result.field_accuracy[f].den = Cardinality(AnalyzedAt(RequestedIds, call.engine))

\* C18 witness: a report over an analyzed document none of whose fields can
\* be extracted
C18_Witness ==
    /\ IsReport
    /\ result.analyzed_documents >= 1
    /\ \E i \in AnalyzedAt(RequestedIds, call.engine) :
          \A f \in Fields : NothingToExtract(RequestedIds[i], call.engine, f)

\* C19: field_errors has exactly the four tracked fields as keys, and a
\* tracked field absent from the ground-truth record has ground_truth "",
\* similarity 0.0 and is_correct false whatever the OCR text holds.
C19_AbsentFieldIsEmptyTruth ==
    IsAnalysis =>
      /\ DOMAIN result.value.field_errors = Fields
      /\ \A f \in Fields :
            DocTruth(call.doc_id, f).k = "missing"
            => /\ result.value.field_errors[f].ground_truth = <<>>
               /\ IsZero(result.value.field_errors[f].similarity)
               /\ ~result.value.field_errors[f].is_correct

\* C19 witness: the record lacks the vendor name while the OCR text yields one
C19_Witness ==
    /\ IsAnalysis
    /\ DocTruth(call.doc_id, "vendor_name").k = "missing"
    /\ result.value.field_errors["vendor_name"].ocr_extracted # <<>>
    /\ result.value.field_errors["invoice_number"].ground_truth # <<>>

\* the stems of the label files that are not "_metadata" files
GroundTruthStems == {stem \in LabelFiles : stem \notin MetadataStems}

\* C20: when doc_ids is not supplied, the ids that are analyzed are exactly
\* the stems of the *.json files of the label directory that do not end in
\* "_metadata", each once, and total_documents is their number; a
\* {doc_id}_metadata.json written by add_document is never analyzed.
C20_DiscoverySkipsMetadata ==
    (IsReport /\ call.doc_ids.none) =>
      /\ Range(ResolveIds(call.doc_ids, call.listing)) = GroundTruthStems
      /\ Len(ResolveIds(call.doc_ids, call.listing)) = Cardinality(GroundTruthStems)
      /\ result.total_documents = Cardinality(GroundTruthStems)
      /\ \A i \in DOMAIN result.detailed_errors :
            result.detailed_errors[i].doc_id \notin MetadataStems

\* C20 witness: a report over a discovered corpus that holds a metadata file
\* next to two ground-truth records
C20_Witness ==
    /\ IsReport /\ call.doc_ids.none
    /\ \E s \in MetadataStems : s \in LabelFiles
    /\ result.total_documents = 2
    /\ result.analyzed_documents >= 1

\* the rearrangements of the list ids
Rearranged(ids) ==
    {[i \in DOMAIN ids |-> ids[p[i]]] :
        p \in {q \in [DOMAIN ids -> DOMAIN ids] : \A j \in DOMAIN ids : \E i \in DOMAIN ids : q[i] = j}}

\* C21: a report over a rearranged list of the same ids over the same stores
\* has the same total_documents, analyzed_documents and field_accuracy, and
\* each entry of detailed_errors is the analysis the document gets on its own.
C21_ReportOrderInsensitive ==
    IsReport =>
      /\ \A ids \in Rearranged(RequestedIds) :
            /\ ReportFor(call.engine, ids).kind = "report"
            /\ ReportFor(call.engine, ids).total_documents = result.total_documents
            /\ ReportFor(call.engine, ids).analyzed_documents = result.analyzed_documents
            /\ ReportFor(call.engine, ids).field_accuracy = result.field_accuracy
      /\ \A i \in DOMAIN result.detailed_errors :
            result.detailed_errors[i] =
                analyze_field_errors(result.detailed_errors[i].doc_id, call.engine).value

\* C21 witness: a report over two different analyzed documents whose
\* analyses differ in the fields that are correct
C21_Witness ==
    /\ IsReport
    /\ result.analyzed_documents = 2
    /\ result.detailed_errors[1].doc_id # result.detailed_errors[2].doc_id
    /\ \E f \in Fields : result.detailed_errors[1].field_errors[f].is_correct
                            # result.detailed_errors[2].field_errors[f].is_correct

\* the sum of the numerators of the four per-field accuracies
CorrectSum == SumOver([f \in Fields |-> result.field_accuracy[f].num], Fields)

\* C28: in a report with analyzed documents each tracked field's accuracy is
\* a count divided by analyzed_documents, the number of analyzed positions of
\* the request (a repeated id counted each time); every value of
\* field_accuracy lies in [0, 1]; and the overall entry equals the mean of
\* the four per-field accuracies (all are 0.0 when nothing was analyzed).
C28_DenominatorIsAnalyzedCount ==
    IsReport =>
      /\ result.analyzed_documents = Cardinality(AnalyzedAt(RequestedIds, call.engine))
      /\ \A f \in Fields \cup {"overall"} :
            /\ result.field_accuracy[f].den > 0
            /\ 0 <= result.field_accuracy[f].num
            /\ result.field_accuracy[f].num <= result.field_accuracy[f].den
      /\ result.analyzed_documents > 0 =>
            /\ \A f \in Fields : result.field_accuracy[f].den = result.analyzed_documents
            /\ result.field_accuracy["overall"].num * Cardinality(Fields) * result.analyzed_documents
                  = CorrectSum * result.field_accuracy["overall"].den
      /\ result.analyzed_documents = 0 =>
            \A f \in Fields \cup {"overall"} : IsZero(result.field_accuracy[f])

\* C28 witness: a report in which an id listed twice is analyzed twice and
\* one field is right in some analyzed documents and wrong in others
C28_Witness ==
    /\ IsReport
    /\ result.analyzed_documents >= 3
    /\ \E d \in DocIds : Occurrences(RequestedIds, d) >= 2
    /\ \E f \in Fields : /\ 0 < result.field_accuracy[f].num
                            /\ result.field_accuracy[f].num < result.field_accuracy[f].den

\* the OCR file of d lies in the directory of engine and parses as a mapping
\* that has no entry under engine
NoEntryFor(d, engine) ==
    /\ ocrFiles[d].st = "json" /\ ocrFiles[d].dir = engine
    /\ ocrFiles[d].top = "dict"
    /\ ocrFiles[d].entries[engine].t = "missing"

\* C29: when the stored OCR file of a document parses but has no entry under
\* the requested engine, load_ocr_result gives None, analyze_field_errors
\* returns None instead of raising, and in a report the document counts in
\* total_documents and is not among the analyzed documents.
C29_NoEngineEntryIsSkipped ==
    /\ (call.op = "analyze_field_errors" /\ NoEntryFor(call.doc_id, call.engine))
          => /\ result.kind = "analysis_none"
             /\ load_ocr_result(call.doc_id, call.engine).none
    /\ IsReport
          => /\ result.total_documents = Len(RequestedIds)
             /\ \A i \in DOMAIN RequestedIds :
                   NoEntryFor(RequestedIds[i], call.engine)
                   => /\ i \notin AnalyzedAt(RequestedIds, call.engine)
                      /\ \A j \in DOMAIN result.detailed_errors :
                            result.detailed_errors[j].doc_id # RequestedIds[i]
             /\ result.analyzed_documents = Cardinality(AnalyzedAt(RequestedIds, call.engine))

\* C29 witness: a report over a document whose OCR file holds only the other
\* engine's entry, with its ground truth stored, next to an analyzed document
C29_Witness ==
    /\ IsReport
    /\ result.analyzed_documents = 1
    /\ result.total_documents = 2
    /\ \E i \in DOMAIN RequestedIds :
          /\ NoEntryFor(RequestedIds[i], call.engine)
          /\ \E e \in Engines : ocrFiles[RequestedIds[i]].entries[e].t = "dict"
          /\ labels[RequestedIds[i]] = FileJson(FixtureLabel)

\* an operation on a DatasetOrganizer has just returned
IsOrganizerCall(op) == call.op = op /\ result.kind \notin {"none", "raise"}

\* the organizer the last call was made on, and its dict of documents
CalledMetadata  == organizers[call.organizer].metadata
CalledDocuments == CalledMetadata.documents

RECURSIVE SizeSum(_)
\* the sum of file_size_bytes over the entries of documents
SizeSum(documents) ==
    IF documents = <<>> THEN 0
    ELSE Head(documents).file_size_bytes + SizeSum(Tail(documents))

\* C23: for every DatasetOrganizer, statistics.total_documents is the number
\* of entries of metadata.documents, statistics.total_size_bytes is the sum
\* of their file_size_bytes and is not negative; get_stats() and
\* list_documents() report that number.
C23_StatisticsMatchDocuments ==
    /\ \A o \in Organizers :
          organizers[o].exists
          => /\ organizers[o].metadata.total_documents = Len(organizers[o].metadata.documents)
             /\ organizers[o].metadata.total_size_bytes = SizeSum(organizers[o].metadata.documents)
             /\ organizers[o].metadata.total_size_bytes >= 0
    /\ IsOrganizerCall("get_stats")
          => result.value.total_documents = Len(CalledDocuments)
    /\ (IsOrganizerCall("list_documents") /\ ~call.limit.given)
          => Len(result.value) = CalledMetadata.total_documents

\* C24: a successful add_document returns an id that was not registered
\* before the call, and leaves one more document in list_documents().
C24_AddReturnsUnregisteredId ==
    [][(result.kind = "none" /\ call'.op = "add_document" /\ result'.kind = "added")
          => /\ result'.value \notin KeysOf(organizers[call'.organizer].metadata.documents)
             /\ Len(list_documents(organizers'[call'.organizer].metadata.documents, NoLimit))
                  = Len(list_documents(organizers[call'.organizer].metadata.documents, NoLimit)) + 1]_vars

C26_ListDocumentsLimit ==
    IsOrganizerCall("list_documents")
    => IF call.limit.given
       THEN /\ Len(result.value) <= call.limit.n
            /\ result.value = Prefix(CalledDocuments, call.limit.n)
       ELSE result.value = CalledDocuments

\* C30: the persisted dataset_metadata.json lists every document that an
\* organizer added and that has not been removed (its metadata label is in
\* the label directory), and its total_documents is not below their number.
C30_NoLostUpdate ==
    manifest.exists
    => /\ \A d \in metaFiles : d \in KeysOf(manifest.data.documents)
       /\ manifest.data.total_documents >= Cardinality(metaFiles)

IsOcrResult == call.op \in {"extract_text_paddle", "extract_text_tesseract"} /\ result.kind = "ocr_result"

\* the delimiter of the engine that produced the result
DelimiterOf(engine) == IF engine = "paddle" THEN <<"\n">> ELSE <<" ">>

\* C22: every result of extract_text_paddle and extract_text_tesseract, the
\* one carrying an error included, has num_blocks equal to the number of text
\* blocks, a full_text that is the texts of the blocks in order joined by the
\* engine's delimiter, and avg_confidence 0.0 when there is no text block.
C22_OcrResultInvariant ==
    IsOcrResult
    => /\ result.value.num_blocks = Len(result.value.text_blocks)
       /\ result.value.full_text
             = Join(DelimiterOf(result.value.engine),
                    [i \in DOMAIN result.value.text_blocks |-> result.value.text_blocks[i].text])
       /\ result.value.text_blocks = <<>> => IsZero(result.value.avg_confidence)
       /\ result.value.error => result.value.text_blocks = <<>>

\* C22 witness: a Tesseract result with a text block, from boxes one of
\* which was dropped for its confidence
C22_Witness ==
    /\ IsOcrResult
    /\ call.op = "extract_text_tesseract"
    /\ result.value.num_blocks >= 1
    /\ Len(WithText(scan.tesseract.boxes)) > result.value.num_blocks

IsBatch == call.op = "batch_process" /\ result.kind = "batch"

\* C27: batch_process visits the matching images in sorted path order, all
\* of them even when one raises; it returns the results of the images that
\* did not raise, in that order; and batch_summary.json holds successful =
\* len(results) and successful + failed = total_images.
C27_BatchProcessContinues ==
    IsBatch
    => /\ result.visited = list_files(imageDir)
       /\ [i \in DOMAIN result.value |-> result.value[i].image_name]
             = SelectSeq(list_files(imageDir), LAMBDA name : imageDir[name] = "image")
       /\ summaryFile.exists
       /\ summaryFile.successful = Len(result.value)
       /\ summaryFile.successful + summaryFile.failed = summaryFile.total_images
       /\ summaryFile.total_images = Len(list_files(imageDir))

\* C27 witness: a batch in which an image that raises lies between two that
\* are processed
C27_Witness ==
    /\ IsBatch
    /\ imageDir["test_0.png"] = "image"
    /\ imageDir["test_1.png"] = "raising"
    /\ imageDir["test_2.png"] = "image"
    /\ Len(result.value) = 2
    /\ summaryFile.failed = 1

====
